---- MODULE Spec2Model ----
(***************************************************************************)
(* Oxischeme's two-stage evaluator (src/src/eval.rs) and its primitive     *)
(* table (src/src/primitives.rs): syntactic analysis of a parsed form into *)
(* a Meaning, and the trampolining interpreter that runs Meanings against  *)
(* a chain of activations.  The host (Rust) call stack is explicit, so     *)
(* that its depth and the order of the evaluator calls can be stated.      *)
(***************************************************************************)
EXTENDS Integers, Sequences, FiniteSets

\* ------------------------------------------------------------------ bounds
\* Largest iteration count n of the looping programs.
MaxN == 3
\* Largest number of parameters / of local defines of the generated lambdas.
MaxParams == 2
MaxDefs == 2

\* ------------------------------------------------------------------ values
\* value::Value.  Every variant has its own field names, so two values of
\* different variants are different records.
Sym(x) == [t |-> "sym", s |-> x]
new_integer(n) == [t |-> "int", n |-> n]
new_boolean(b) == [t |-> "bool", b |-> b]
EmptyList == [t |-> "nil"]
Unspecified == [t |-> "unspec"]
Primitive(nm) == [t |-> "prim", name |-> nm]
Procedure(p) == [t |-> "proc", p |-> p]
\* A cons cell; id is the cell's identity (its address in the heap).
Pair(a, d, id) == [t |-> "pair", car |-> a, cdr |-> d, id |-> id]
\* The state of an activation slot that holds no value.
Unset == [t |-> "unset"]

\* ------------------------------------------------------------------ reader
\* What the reader hands to evaluate: cons cells, each with a location.  A
\* written form is [t |-> "list", xs, tail]; Read turns it into cons cells
\* whose identity is their position in the text.
Ls(xs) == [t |-> "list", xs |-> xs, tail |-> EmptyList]
Improper(xs, tl) == [t |-> "list", xs |-> xs, tail |-> tl]

RECURSIVE Read(_, _)
RECURSIVE ReadList(_, _, _)
Read(r, path) ==
    IF r.t = "list" THEN ReadList(r.xs, r.tail, path) ELSE r
ReadList(xs, tl, path) ==
    IF xs = <<>> THEN tl
    ELSE Pair(Read(Head(xs), path \o <<0>>),
              ReadList(Tail(xs), tl, path \o <<1>>),
              path)

\* What the reader yields where the text cannot be read: an Err in place of
\* a form.
ReadError == [t |-> "read_error"]

\* heap.locate(pair): the location the reader recorded for a cons cell.
locate(pair) == pair.id

\* ----------------------------------------------------------- list helpers
is_atom(v) == v.t # "pair"
to_symbol(v) == v.t = "sym"

\* Value::len: the length of a proper list, -1 for Err (anything else).
RECURSIVE len(_)
len(v) ==
    IF v.t = "nil" THEN 0
    ELSE IF v.t = "pair"
         THEN LET n == len(v.cdr) IN IF n < 0 THEN -1 ELSE n + 1
         ELSE -1

\* Value::iter: the cars of the cells of a list, up to its first non-cell.
RECURSIVE ListItems(_)
ListItems(v) ==
    IF v.t = "pair" THEN <<v.car>> \o ListItems(v.cdr) ELSE <<>>

\* ------------------------------------------------------------- environment
\* environment::Environment: a stack of frames, each a sequence of names.
\* env[1] is the global frame, env[Len(env)] the innermost one.
IndexOf(frame, name) ==
    IF \E k \in 1..Len(frame) : frame[k] = name
    THEN CHOOSE k \in 1..Len(frame) :
             /\ frame[k] = name
             /\ \A l \in 1..(k - 1) : frame[l] # name
    ELSE 0

\* Environment::lookup: the innermost frame that holds the name.
lookup(env, name) ==
    LET hits == {f \in 1..Len(env) : IndexOf(env[f], name) > 0}
    IN  IF hits = {} THEN [found |-> FALSE, i |-> 0, j |-> 0]
        ELSE LET f == CHOOSE g \in hits : \A h \in hits : h <= g
             IN  [found |-> TRUE, i |-> Len(env) - f,
                  j |-> IndexOf(env[f], name) - 1]

\* Environment::define: the name's slot in the innermost frame, appended
\* when the frame does not hold the name yet.
define(env, name) ==
    LET f == Len(env)
        k == IndexOf(env[f], name)
    IN  IF k > 0 THEN [env |-> env, i |-> 0, j |-> k - 1]
        ELSE [env |-> [env EXCEPT ![f] = Append(@, name)],
              i |-> 0, j |-> Len(env[f])]

\* Environment::define_global: appends to the global frame.
define_global(env, name) ==
    [env |-> [env EXCEPT ![1] = Append(@, name)],
     i |-> Len(env) - 1, j |-> Len(env[1])]

\* Heap::with_extended_env: the frame pushed before the body runs and
\* popped after it, on every exit path.
extend_env(env, names) == Append(env, names)
pop_env(env) == SubSeq(env, 1, Len(env) - 1)

\* ---------------------------------------------------------------- meanings
\* eval::Meaning: payload variant d, its fields, and the location.  The
\* fields name (of Definition and SetVariable), names and params (of
\* Lambda: the bindings the environment was extended with, and the written
\* parameters) are not in the program: they record the bindings the coordinates were
\* made for, so that the properties below can speak about them.  So does
\* ext of Lambda: the environment before with_extended_env was called and
\* after it returned.
new_quotation(form, loc) == [d |-> "Quotation", val |-> form, loc |-> loc]
new_reference(i, j, name, loc) ==
    [d |-> "Reference", i |-> i, j |-> j, name |-> name, loc |-> loc]
new_set_variable(i, j, val, loc, name) ==
    [d |-> "SetVariable", i |-> i, j |-> j, sub |-> val, loc |-> loc,
     name |-> name]
new_conditional(c, t, e, loc) ==
    [d |-> "Conditional", cond |-> c, cons |-> t, alt |-> e, loc |-> loc]
new_sequence(first, second, loc) ==
    [d |-> "Sequence", first |-> first, second |-> second, loc |-> loc]
new_definition(i, j, defined, loc, name) ==
    [d |-> "Definition", i |-> i, j |-> j, sub |-> defined, loc |-> loc,
     name |-> name]
new_lambda(arity, body, loc, names, params, ext) ==
    [d |-> "Lambda", arity |-> arity, body |-> body, loc |-> loc,
     names |-> names, params |-> params, ext |-> ext]
new_invocation(procedure, params, loc) ==
    [d |-> "Invocation", proc |-> procedure, params |-> params, loc |-> loc]

\* ---------------------------------------------------------------- analysis
\* A MeaningResult together with the environment the analysis leaves:
\* Ok(m) or Err(e).  An error is its message and the locations written in
\* front of it, outermost first.
Ok(m, env) == [ok |-> TRUE, m |-> m, env |-> env]
Err(msg, locs, env) ==
    [ok |-> FALSE, err |-> [msg |-> msg, name |-> "", locs |-> locs],
     env |-> env]

is_auto_quoting(form) == form.t \notin {"nil", "pair", "sym"}

\* A coordinate for an unbound symbol taken in the innermost frame instead
\* of the global one.
atom_coordinate_innermost(env, name) ==
    LET l == lookup(env, name)
    IN  IF l.found THEN [env |-> env, i |-> l.i, j |-> l.j]
        ELSE define(env, name)

\* The coordinate analyze_atom embeds for a symbol: the one lookup finds, or
\* else a speculatively defined global.
atom_coordinate(env, name) ==
    LET l == lookup(env, name)
    IN  IF l.found THEN [env |-> env, i |-> l.i, j |-> l.j]
        ELSE define_global(env, name)

analyze_atom(env, form, loc) ==
    IF is_auto_quoting(form) THEN Ok(new_quotation(form, loc), env)
    ELSE IF to_symbol(form)
         THEN LET c == atom_coordinate(env, form.s)
              IN  Ok(new_reference(c.i, c.j, form.s, loc), c.env)
         ELSE Err("Static error: Cannot evaluate", <<>>, env)

\* An analyze_quoted that looks at the second part only.
analyze_quoted_lenient(env, form) ==
    IF form.cdr.t = "pair"
    THEN Ok(new_quotation(form.cdr.car, locate(form)), env)
    ELSE Err("Static error: Wrong number of parts in quoted form",
             <<locate(form)>>, env)

analyze_quoted(env, form) ==
    IF len(form) = 2
    THEN Ok(new_quotation(form.cdr.car, locate(form)), env)
    ELSE Err("Static error: Wrong number of parts in quoted form",
             <<locate(form)>>, env)

\* A binding list with the local definitions in front of the parameters.
new_bindings_locals_first(param_names, locals) == locals \o param_names

\* The binding list analyze_lambda extends the environment with:
\* parameters first, then the local definitions.
new_bindings(param_names, locals) ==
    param_names \o locals

\* The names of the (define NAME ...) forms at the top level of a body.
RECURSIVE local_definitions(_)
local_definitions(body) ==
    IF body.t # "pair" THEN <<>>
    ELSE LET form == body.car
             here == IF /\ form.t = "pair"
                        /\ form.car = Sym("define")
                        /\ form.cdr.t = "pair"
                        /\ to_symbol(form.cdr.car)
                     THEN <<form.cdr.car.s>>
                     ELSE <<>>
         IN  here \o local_definitions(body.cdr)

RECURSIVE analyze(_, _, _)
RECURSIVE make_meaning_sequence(_, _)
RECURSIVE make_meaning_vector(_, _, _)

\* A coordinate for a definition that never looks for the name: a new slot
\* at the end of the global frame.
definition_coordinate_fresh(env, name) == define_global(env, name)

\* The slot analyze_definition gives the defined name.
definition_coordinate(env, name) == define(env, name)

\* An analyze_definition that registers the name first and analyzes the
\* value in the resulting environment.
analyze_definition_define_first(env, form) ==
    IF len(form) = 3
    THEN LET sym == form.cdr.car
             location == locate(form)
         IN  IF to_symbol(sym)
             THEN LET c == definition_coordinate(env, sym.s)
                      v == analyze(c.env, form.cdr.cdr.car, location)
                  IN  IF ~v.ok THEN v
                      ELSE Ok(new_definition(c.i, c.j, v.m, location,
                                             sym.s),
                              v.env)
             ELSE Err("Static error: can only define symbols",
                      <<location>>, env)
    ELSE Err("Static error: improperly formed definition",
             <<locate(form)>>, env)

analyze_definition(env, form) ==
    IF len(form) = 3
    THEN LET sym == form.cdr.car
             location == locate(form)
         IN  IF to_symbol(sym)
             THEN LET v == analyze(env, form.cdr.cdr.car, location)
                  IN  IF ~v.ok THEN v
                      ELSE LET c == definition_coordinate(v.env, sym.s)
                           IN  Ok(new_definition(c.i, c.j, v.m, location,
                                                 sym.s),
                                  c.env)
             ELSE Err("Static error: can only define symbols",
                      <<location>>, env)
    ELSE Err("Static error: improperly formed definition",
             <<locate(form)>>, env)

analyze_set(env, form) ==
    IF len(form) = 3
    THEN LET sym == form.cdr.car
             location == locate(form)
         IN  IF to_symbol(sym)
             THEN LET v == analyze(env, form.cdr.cdr.car, location)
                  IN  IF ~v.ok THEN v
                      ELSE LET c == atom_coordinate(v.env, sym.s)
                           IN  Ok(new_set_variable(c.i, c.j, v.m, location,
                                                   sym.s),
                                  c.env)
             ELSE Err("Static error: can only set! symbols",
                      <<location>>, env)
    ELSE Err("Static error: improperly formed set!",
             <<locate(form)>>, env)

\* A with_extended_env that leaves the frame in place when the body fails.
with_extended_env_pop_on_success(env, names, body) ==
    LET b == make_meaning_sequence(extend_env(env, names), body)
    IN  IF b.ok THEN [b EXCEPT !.env = pop_env(b.env)] ELSE b

\* Heap::with_extended_env, called with the closure of analyze_lambda: the
\* frame is pushed, the body analyzed, the frame popped, and the body's
\* result returned.
with_extended_env(env, names, body) ==
    LET b == make_meaning_sequence(extend_env(env, names), body)
    IN  [b EXCEPT !.env = pop_env(b.env)]

analyze_lambda(env, form) ==
    IF len(form) < 3
    THEN Err("Static error: improperly formed lambda", <<locate(form)>>, env)
    ELSE LET location == locate(form)
             body == form.cdr.cdr
             params_form == form.cdr.car
             params == ListItems(params_form)
             arity == Len(params)
         IN  IF len(params_form) < 0
             THEN Err("Bad lambda parameters", <<location>>, env)
             ELSE IF \E k \in 1..arity : ~to_symbol(params[k])
             THEN Err("Can only define symbol parameters", <<location>>, env)
             ELSE LET param_names == [k \in 1..arity |-> params[k].s]
                      bindings == new_bindings(param_names,
                                               local_definitions(body))
                      b == with_extended_env(env, bindings, body)
                  IN  IF ~b.ok THEN b
                      ELSE Ok(new_lambda(arity, b.m, location, bindings,
                                         param_names,
                                         [before |-> env, after |-> b.env]),
                              b.env)

analyze_conditional(env, form) ==
    IF len(form) = 4
    THEN LET location == locate(form)
             c == analyze(env, form.cdr.car, location)
         IN  IF ~c.ok THEN c
             ELSE LET t == analyze(c.env, form.cdr.cdr.car, location)
                  IN  IF ~t.ok THEN t
                      ELSE LET e == analyze(t.env, form.cdr.cdr.cdr.car,
                                            location)
                           IN  IF ~e.ok THEN e
                               ELSE Ok(new_conditional(c.m, t.m, e.m,
                                                       location),
                                       e.env)
    ELSE Err("Static error: improperly if expression", <<locate(form)>>, env)

make_meaning_sequence(env, forms) ==
    IF forms.t = "pair"
    THEN LET location == locate(forms)
             first == analyze(env, forms.car, location)
         IN  IF ~first.ok THEN first
             ELSE IF forms.cdr = EmptyList THEN first
             ELSE LET rest == make_meaning_sequence(first.env, forms.cdr)
                  IN  IF ~rest.ok THEN rest
                      ELSE Ok(new_sequence(first.m, rest.m, location),
                              rest.env)
    ELSE Err("Static error: improperly formed sequence", <<>>, env)

analyze_sequence(env, form) == make_meaning_sequence(env, form.cdr)

\* Ok(meanings) is [ok, ms, env].  On a list that does not end in the
\* empty list the function panics; analyze_invocation, its only caller,
\* has checked the length of the list before.
make_meaning_vector(env, forms, meanings) ==
    IF forms.t = "nil" THEN [ok |-> TRUE, ms |-> meanings, env |-> env]
    ELSE IF forms.t # "pair"
    THEN Err("panic: Passed improper list to make_meaning_vector", <<>>, env)
    ELSE LET a == analyze(env, forms.car, locate(forms))
         IN  IF ~a.ok THEN a
             ELSE make_meaning_vector(a.env, forms.cdr, Append(meanings, a.m))

analyze_invocation(env, form) ==
    LET location == locate(form)
        p == analyze(env, form.car, location)
    IN  IF ~p.ok THEN p
        ELSE IF len(form.cdr) < 0
        THEN Err("Static error: improperly formed invocation", <<>>, p.env)
        ELSE LET ps == make_meaning_vector(p.env, form.cdr, <<>>)
             IN  IF ~ps.ok THEN ps
                 ELSE Ok(new_invocation(p.m, ps.ms, location), ps.env)

analyze(env, form, location) ==
    IF is_atom(form) THEN analyze_atom(env, form, location)
    ELSE LET v == form.car
         IN  IF v = Sym("quote") THEN analyze_quoted(env, form)
             ELSE IF v = Sym("define") THEN analyze_definition(env, form)
             ELSE IF v = Sym("set!") THEN analyze_set(env, form)
             ELSE IF v = Sym("lambda") THEN analyze_lambda(env, form)
             ELSE IF v = Sym("if") THEN analyze_conditional(env, form)
             ELSE IF v = Sym("begin") THEN analyze_sequence(env, form)
             ELSE analyze_invocation(env, form)

\* ------------------------------------------------------------- activations
\* environment::Activation: a parent (0 for the global activation, which
\* is acts[1]) and the slots.  names and by are not in the program: names
\* is the binding list of the lambda the activation was made for, by[q] the name
\* whose parameter binding or Definition wrote slot q.
GlobalAct == [parent |-> 0, slots |-> <<>>, names |-> <<>>, by |-> <<>>]

\* The activation i parents out from a; 0 when the chain ends before.
RECURSIVE Walk(_, _, _)
Walk(acts, a, i) ==
    IF i = 0 THEN a
    ELSE IF acts[a].parent = 0 THEN 0
    ELSE Walk(acts, acts[a].parent, i - 1)

Pad(n) == [k \in 1..n |-> Unset]

\* Activation::fetch: the value of slot j, or Unset.
Activation_fetch(acts, a, i, j) ==
    LET t == Walk(acts, a, i)
    IN  IF t = 0 THEN [t |-> "panic"]
        ELSE IF j < Len(acts[t].slots) THEN acts[t].slots[j + 1]
        ELSE Unset

\* Activation::update: overwrites a slot that holds a value; fails on a
\* slot that was never defined.
Activation_update(acts, a, i, j, val) ==
    LET t == Walk(acts, a, i)
    IN  IF t = 0 THEN [ok |-> FALSE, panic |-> TRUE, acts |-> acts]
        ELSE IF j < Len(acts[t].slots) /\ acts[t].slots[j + 1] # Unset
        THEN [ok |-> TRUE, panic |-> FALSE,
              acts |-> [acts EXCEPT ![t].slots[j + 1] = val]]
        ELSE [ok |-> FALSE, panic |-> FALSE, acts |-> acts]

\* Activation::define: writes slot j of the activation itself; the slots
\* between the old end and j come into being unset.
Activation_define(acts, a, j, val, name) ==
    LET old == acts[a].slots
        n == IF j < Len(old) THEN 0 ELSE j + 1 - Len(old)
    IN  [acts EXCEPT
             ![a].slots = [(old \o Pad(n)) EXCEPT ![j + 1] = val],
             ![a].by = [(@ \o [k \in 1..n |-> ""]) EXCEPT ![j + 1] = name]]

\* Activation::extend: a new activation whose slots are the given values.
Activation_extend(acts, parent, values, names, params) ==
    Append(acts, [parent |-> parent, slots |-> values, names |-> names,
                  by |-> params])

\* --------------------------------------------------------------- primitives
\* primitives::define_primitives, in registration order.
PrimitiveNames ==
    <<"cons", "car", "cdr", "list", "print", "null?", "pair?", "atom?",
      "eq?", "+", "-", "/", "*">>

\* A registration that puts each value in front of the values pushed so
\* far.
RECURSIVE define_primitives_values_in_front(_, _, _)
define_primitives_values_in_front(env, act, k) ==
    IF k > Len(PrimitiveNames) THEN [env |-> env, act |-> act]
    ELSE define_primitives_values_in_front(
             define(env, PrimitiveNames[k]).env,
             [act EXCEPT !.slots = <<Primitive(PrimitiveNames[k])>> \o @,
                         !.by = <<PrimitiveNames[k]>> \o @],
             k + 1)

\* define_primitive: the name is defined in the environment and the value
\* pushed on the global activation.
RECURSIVE define_primitives(_, _, _)
define_primitives(env, act, k) ==
    IF k > Len(PrimitiveNames) THEN [env |-> env, act |-> act]
    ELSE define_primitives(
             define(env, PrimitiveNames[k]).env,
             [act EXCEPT !.slots = Append(@, Primitive(PrimitiveNames[k])),
                         !.by = Append(@, PrimitiveNames[k])],
             k + 1)

Abs(x) == IF x < 0 THEN -x ELSE x
\* Rust's integer division truncates toward zero.
Quot(a, b) ==
    IF (a < 0) = (b < 0) THEN Abs(a) \div Abs(b) ELSE -(Abs(a) \div Abs(b))

\* A trampoline result.
Value(v) == [k |-> "Value", v |-> v]
Thunk(a, m) == [k |-> "Thunk", a |-> a, m |-> m]
Error(msg) == [k |-> "Err", e |-> [msg |-> msg, name |-> "", locs |-> <<>>]]

\* value::list: a list of fresh cells numbered from n.
RECURSIVE list(_, _)
list(vals, n) ==
    IF vals = <<>> THEN EmptyList
    ELSE Pair(Head(vals), list(Tail(vals), n + 1), <<-1, n>>)

arith(name, args) ==
    IF Len(args) # 2 THEN Error("Bad arguments")
    ELSE IF args[1].t # "int" \/ args[2].t # "int"
    THEN Error("Cannot use " \o name \o " with non-numbers")
    ELSE LET a == args[1].n
             b == args[2].n
         IN  IF name = "+" THEN Value(new_integer(a + b))
             ELSE IF name = "-" THEN Value(new_integer(a - b))
             ELSE IF name = "*" THEN Value(new_integer(a * b))
             ELSE IF b = 0 THEN Error("Divide by zero")
             ELSE Value(new_integer(Quot(a, b)))

\* Primitive::call; n numbers the first cell it allocates.
primitive_call(name, args, n) ==
    IF name = "cons"
    THEN IF Len(args) = 2 THEN Value(Pair(args[1], args[2], <<-1, n>>))
         ELSE Error("Bad arguments")
    ELSE IF name \in {"car", "cdr"}
    THEN IF Len(args) # 1 THEN Error("Bad arguments")
         ELSE IF args[1].t # "pair"
         THEN Error("Cannot take " \o name \o " of non-cons")
         ELSE Value(IF name = "car" THEN args[1].car ELSE args[1].cdr)
    ELSE IF name = "list" THEN Value(list(args, n))
    ELSE IF name = "print" THEN Value(Unspecified)
    ELSE IF name \in {"null?", "pair?", "atom?"}
    THEN IF Len(args) # 1 THEN Error("Bad arguments")
         ELSE Value(new_boolean(
                  IF name = "null?" THEN args[1] = EmptyList
                  ELSE IF name = "pair?" THEN args[1].t = "pair"
                  ELSE args[1].t # "pair"))
    ELSE IF name = "eq?"
    THEN IF Len(args) = 2 THEN Value(new_boolean(args[1] = args[2]))
         ELSE Error("Bad arguments")
    ELSE arith(name, args)

\* The cells a call of the primitive allocates.
cells_of(name, args) ==
    IF name = "cons" THEN 1 ELSE IF name = "list" THEN Len(args) ELSE 0

\* ---------------------------------------------------------------- programs
\* The written forms of a program, as the reader hands them over one by one.
S(x) == Sym(x)
N(n) == new_integer(n)
Quote(x) == Ls(<<S("quote"), x>>)
Define(x, v) == Ls(<<S("define"), S(x), v>>)
SetBang(x, v) == Ls(<<S("set!"), S(x), v>>)
If(c, t, e) == Ls(<<S("if"), c, t, e>>)
Begin(xs) == Ls(<<S("begin")>> \o xs)
Lambda(ps, body) == Ls(<<S("lambda"), Ls(ps)>> \o body)
Call(f, args) == Ls(<<f>> \o args)

B(b) == new_boolean(b)
Ints(n) == [k \in 1..n |-> N(k)]
Syms(names) == [k \in 1..Len(names) |-> S(names[k])]
SeqsUpTo(set, n) == UNION {[1..m -> set] : m \in 0..n}

\* The body of a counting loop: at 0 the result, otherwise the step.
LoopBody(step) ==
    If(Call(S("eq?"), <<S("n"), N(0)>>), Quote(S("done")), step)
Recur == Call(S("loop"), <<Call(S("-"), <<S("n"), N(1)>>)>>)

\* n iterations; the recursive call is the chosen branch of an if.
TailIf(n) ==
    <<Define("loop", Lambda(<<S("n")>>, <<LoopBody(Recur)>>)),
      Call(S("loop"), <<N(n)>>)>>

\* n iterations; the recursive call is the last form of a sequence.
TailSeq(n) ==
    <<Define("loop",
             Lambda(<<S("n")>>,
                    <<LoopBody(Begin(<<Quote(S("step")), Recur>>))>>)),
      Call(S("loop"), <<N(n)>>)>>

\* n iterations; the recursive call is an operand, not a tail call.
NonTail(n) ==
    <<Define("loop",
             Lambda(<<S("n")>>,
                    <<If(Call(S("eq?"), <<S("n"), N(0)>>), N(0),
                         Call(S("+"), <<N(1), Recur>>))>>)),
      Call(S("loop"), <<N(n)>>)>>

\* A lambda with parameters ps and local defines ds (the n-th defined as
\* 10 + n), which lists its parameters and then its defines, called with the
\* arguments 1, 2, ...
ParamNames == {"x", "y"}
DefNames == {"x", "u", "v"}
LocalDefs(ps, ds) ==
    <<Call(Lambda(Syms(ps),
                  [k \in 1..Len(ds) |-> Define(ds[k], N(10 + k))]
                  \o <<Call(S("list"), Syms(ps) \o Syms(ds))>>),
           Ints(Len(ps)))>>

\* A reference to g below n + 1 lambdas, analyzed before g is defined.
RECURSIVE Thunked(_, _)
Thunked(n, body) ==
    IF n = 0 THEN Lambda(<<>>, <<body>>)
    ELSE Lambda(<<>>, <<Call(Thunked(n - 1, body), <<>>)>>)
ForwardRef(n) ==
    <<Define("f", Thunked(n, S("g"))),
      Define("g", N(7 + n)),
      Call(S("f"), <<>>)>>

\* set! of a global that is bound nowhere, before and after its define.
SetGlobal(n) ==
    IF n = 1
    THEN <<SetBang("foo", N(5)), S("foo"), Define("foo", N(0)),
           SetBang("foo", N(5)), S("foo")>>
    ELSE IF n = 2
    THEN <<Define("s", Lambda(<<>>, <<SetBang("foo", N(5))>>)),
           Call(S("s"), <<>>), S("foo"), Define("foo", N(0)),
           Call(S("s"), <<>>), S("foo")>>
    ELSE <<SetBang("foo", N(5)), Define("foo", N(0)), S("foo")>>

\* References to slots that hold no value.
UnsetRef(n) ==
    IF n = 1 THEN <<S("g"), S("g")>>
    ELSE IF n = 2
    THEN <<Define("f", Lambda(<<>>, <<S("g")>>)), Call(S("f"), <<>>)>>
    ELSE IF n = 3
    THEN <<Call(Lambda(<<>>, <<S("y"), Define("y", N(1))>>), <<>>)>>
    ELSE <<Call(Lambda(<<S("x")>>,
                       <<Define("a", S("z")), Define("z", N(1)), S("a")>>),
                <<N(1)>>)>>

\* n top-level defines of x, the k-th with the value k, then x.
Redefine(n) == [k \in 1..n |-> Define("x", N(k))] \o <<S("x")>>

\* Lambdas nested n deep, one parameter each; the innermost lists all the
\* parameters and the global g.
LevelNames == <<"a", "b", "c", "d", "e", "f">>
RECURSIVE Curried(_, _)
Curried(k, n) ==
    Lambda(<<S(LevelNames[k])>>,
           <<IF k = n
             THEN Call(S("list"), Syms(SubSeq(LevelNames, 1, n)) \o <<S("g")>>)
             ELSE Curried(k + 1, n)>>)
RECURSIVE Applied(_, _)
Applied(f, n) ==
    IF n = 0 THEN f ELSE Call(Applied(f, n - 1), <<N(n)>>)
Nested(n) == <<Define("g", N(0)), Applied(Curried(1, n), n)>>

\* Procedures and the activations they capture.
Counter ==
    Lambda(<<S("c")>>,
           <<Call(S("list"),
                  <<Lambda(<<>>,
                           <<SetBang("c", Call(S("+"), <<S("c"), N(1)>>))>>),
                    Lambda(<<>>, <<S("c")>>)>>)>>)
Get(p) == Call(Call(S("car"), <<Call(S("cdr"), <<S(p)>>)>>), <<>>)
Bump(p) == Call(Call(S("car"), <<S(p)>>), <<>>)
Closure(n) ==
    IF n = 1
    THEN <<Call(Call(Lambda(<<S("x")>>,
                            <<Lambda(<<S("y")>>,
                                     <<Call(S("+"), <<S("x"), S("y")>>)>>)>>),
                     <<N(10)>>),
                <<N(32)>>)>>
    ELSE IF n = 2
    THEN <<Define("x", N(1)),
           Define("f", Lambda(<<>>, <<S("x")>>)),
           Call(Lambda(<<S("x")>>, <<Call(S("f"), <<>>)>>), <<N(2)>>)>>
    ELSE <<Define("mk", Counter),
           Define("p", Call(S("mk"), <<N(0)>>)),
           Define("q", Call(S("mk"), <<N(10)>>)),
           Bump("p"), Get("p"), Get("q"), Bump("q"), Bump("q"),
           Get("q"), Get("p")>>

\* A procedure with a conditional on its argument, called with the n-th of
\* these values; the condition and the two branches count their evaluations
\* in c, a and b, and the branches read the argument.
CondValues ==
    <<B(FALSE), B(TRUE), N(0), Quote(EmptyList), N(1), Quote(S("false")),
      S("car"), Lambda(<<>>, <<B(FALSE)>>)>>
Count(x) == SetBang(x, Call(S("+"), <<S(x), N(1)>>))
Cond(n) ==
    <<Define("a", N(0)), Define("b", N(0)), Define("c", N(0)),
      Define("t",
             Lambda(<<S("v")>>,
                    <<If(Begin(<<Count("c"), S("v")>>),
                         Begin(<<Count("a"),
                                 Call(S("list"), <<Quote(S("yes")), S("v")>>)>>),
                         Begin(<<Count("b"),
                                 Call(S("list"), <<Quote(S("no")), S("v")>>)>>))>>)),
      Call(S("t"), <<CondValues[n]>>),
      Call(S("list"), <<S("a"), S("b"), S("c")>>)>>

\* Operands that record the order of their evaluation: (mark k) appends the
\* digit k to the number in t.  order(n) calls list with n marking operands
\* behind a marking operator; order_fail(n) has MaxN operands, and its
\* operator (n = 0) or n-th operand is a symbol bound nowhere.
Mark(k) == Call(S("mark"), <<N(k)>>)
MarkDef ==
    Define("mark",
           Lambda(<<S("k")>>,
                  <<SetBang("t", Call(S("+"), <<Call(S("*"), <<S("t"), N(10)>>),
                                               S("k")>>)),
                    S("k")>>))
Order(n) ==
    <<Define("t", N(0)), MarkDef,
      Call(Begin(<<Mark(1), S("list")>>), [k \in 1..n |-> Mark(k + 1)]),
      S("t")>>
OrderFail(n) ==
    <<Define("t", N(0)), MarkDef,
      Define("boom", Lambda(Syms(SubSeq(LevelNames, 1, MaxN)), <<Mark(9)>>)),
      Call(IF n = 0 THEN S("zz") ELSE Begin(<<Mark(1), S("boom")>>),
           [k \in 1..MaxN |-> IF k = n THEN S("zz") ELSE Mark(k + 1)]),
      S("t")>>

\* A procedure with the parameters ps, whose body sets t, applied to n
\* arguments.
Arity(ps, n) ==
    <<Define("t", N(0)),
      Call(Lambda(Syms(ps), <<SetBang("t", N(1))>>), Ints(n)),
      S("t")>>

\* (begin (mark 1) .. (mark n)); in begin_fail the n-th of MaxN sub-forms is
\* a symbol bound nowhere.
BeginMarks(n) ==
    <<Define("t", N(0)), MarkDef,
      Begin([k \in 1..n |-> Mark(k)]),
      S("t")>>
BeginFail(n) ==
    <<Define("t", N(0)), MarkDef,
      Begin([k \in 1..MaxN |-> IF k = n THEN S("zz") ELSE Mark(k)]),
      S("t")>>

\* Files: the empty one; three defines and a reference; the same with the
\* third form replaced by a form that does not analyze (n = 2), that
\* fails when evaluated (n = 3), that cannot be read (n = 4).
File(n) ==
    IF n = 0 THEN <<>>
    ELSE <<Define("x", N(1)),
           Define("y", S("x")),
           IF n = 1 THEN Define("x", N(3))
           ELSE IF n = 2 THEN Ls(<<S("if")>>)
           ELSE IF n = 3 THEN S("zz")
           ELSE ReadError,
           Define("y", N(4)),
           Call(S("list"), <<S("x"), S("y")>>)>>

\* A reference to zz, bound nowhere, in each position of a Meaning: as
\* operand, operator, condition, value of a define and of a set!, chosen
\* branch, second part of a sequence, body of a called procedure.
\* The way from the Meaning of each of these forms down to the failing
\* Reference: the part of each Meaning that holds the next one; call is
\* the body of the procedure an Invocation calls.
FailPaths ==
    <<<<"param">>, <<"proc">>, <<"cond">>, <<"sub">>, <<"sub">>, <<"cons">>,
      <<"second">>, <<"call">>>>
Positions == Len(FailPaths)
FailAt(n) ==
    IF n = 1 THEN Call(S("list"), <<S("zz")>>)
    ELSE IF n = 2 THEN Call(S("zz"), <<N(1)>>)
    ELSE IF n = 3 THEN If(S("zz"), N(1), N(2))
    ELSE IF n = 4 THEN Define("x", S("zz"))
    ELSE IF n = 5 THEN SetBang("x", S("zz"))
    ELSE IF n = 6 THEN If(B(TRUE), S("zz"), N(2))
    ELSE IF n = 7 THEN Begin(<<N(1), S("zz")>>)
    ELSE Call(Lambda(<<>>, <<S("zz")>>), <<>>)
\* backtrace(n), n <= Positions: the form on its own; above: the same form
\* as the operand of a call.
Backtrace(n) ==
    <<Define("x", N(0)),
      IF n <= Positions THEN FailAt(n)
      ELSE Call(S("list"), <<FailAt(n - Positions)>>)>>

\* Forms whose shape is wrong, each with the message of its static error:
\* wrong lengths, a NAME that is no symbol, and improper lists.
Bad(form, msg) == [form |-> form, msg |-> msg]
ShapeBad ==
    <<Bad(Ls(<<S("quote")>>),
          "Static error: Wrong number of parts in quoted form"),
      Bad(Ls(<<S("quote"), N(1), N(2)>>),
          "Static error: Wrong number of parts in quoted form"),
      Bad(Improper(<<S("quote"), N(1)>>, N(2)),
          "Static error: Wrong number of parts in quoted form"),
      Bad(Ls(<<S("define"), S("x")>>),
          "Static error: improperly formed definition"),
      Bad(Ls(<<S("define"), S("x"), N(1), N(2)>>),
          "Static error: improperly formed definition"),
      Bad(Improper(<<S("define"), S("x")>>, N(1)),
          "Static error: improperly formed definition"),
      Bad(Ls(<<S("define"), N(1), N(2)>>),
          "Static error: can only define symbols"),
      Bad(Ls(<<S("set!"), S("x")>>),
          "Static error: improperly formed set!"),
      Bad(Ls(<<S("set!"), S("x"), N(1), N(2)>>),
          "Static error: improperly formed set!"),
      Bad(Improper(<<S("set!"), S("x"), N(1)>>, N(2)),
          "Static error: improperly formed set!"),
      Bad(Ls(<<S("set!"), N(1), N(2)>>),
          "Static error: can only set! symbols"),
      Bad(Ls(<<S("if"), B(TRUE), N(1)>>),
          "Static error: improperly if expression"),
      Bad(Ls(<<S("if"), B(TRUE), N(1), N(2), N(3)>>),
          "Static error: improperly if expression"),
      Bad(Improper(<<S("if"), B(TRUE), N(1)>>, N(2)),
          "Static error: improperly if expression"),
      Bad(Ls(<<S("lambda"), Ls(<<S("a")>>)>>),
          "Static error: improperly formed lambda"),
      Bad(Ls(<<S("lambda")>>),
          "Static error: improperly formed lambda"),
      Bad(Improper(<<S("lambda"), Ls(<<S("a")>>), N(1)>>, N(2)),
          "Static error: improperly formed lambda"),
      Bad(Ls(<<S("begin")>>),
          "Static error: improperly formed sequence"),
      Bad(Improper(<<S("begin"), N(1)>>, N(2)),
          "Static error: improperly formed sequence"),
      Bad(Improper(<<S("begin")>>, N(1)),
          "Static error: improperly formed sequence"),
      Bad(Improper(<<S("list"), N(1)>>, N(2)),
          "Static error: improperly formed invocation"),
      Bad(Improper(<<S("list")>>, N(1)),
          "Static error: improperly formed invocation")>>

\* Forms whose shape is right, each with the variant of its Meaning.
Good(form, d) == [form |-> form, d |-> d]
ShapeGood ==
    <<Good(Quote(S("a")), "Quotation"),
      Good(Define("x", N(1)), "Definition"),
      Good(SetBang("x", N(1)), "SetVariable"),
      Good(If(B(TRUE), N(1), N(2)), "Conditional"),
      Good(Lambda(<<S("a")>>, <<S("a")>>), "Lambda"),
      Good(Begin(<<N(1), N(2)>>), "Sequence"),
      Good(Call(S("list"), <<N(1), N(2)>>), "Invocation")>>

\* The ways a form is put in a program: on its own, as an operand, as the
\* last form of a lambda body.
Places == <<"top", "operand", "body">>
Placed(form, place) ==
    IF place = "top" THEN form
    ELSE IF place = "operand" THEN Call(S("list"), <<N(0), form>>)
    ELSE Lambda(<<>>, <<N(0), form>>)

\* shape_bad(n) and shape_good(n): the n-th form, counted through the
\* places, after a define of x.
ShapeAt(forms, n) == forms[((n - 1) % Len(forms)) + 1]
PlaceAt(forms, n) == Places[((n - 1) \div Len(forms)) + 1]
Shape(forms, n) ==
    <<Define("x", N(0)), Placed(ShapeAt(forms, n).form, PlaceAt(forms, n)),
      S("x")>>

\* n lambdas, one in the body of the other, around a form that does not
\* analyze; each body refers to q, bound nowhere, before.  Then a define
\* at top level and a reference to it.
RECURSIVE FailingBody(_)
FailingBody(n) ==
    IF n = 0 THEN Ls(<<S("if")>>)
    ELSE Lambda(<<S(LevelNames[n])>>, <<S("q"), FailingBody(n - 1)>>)
LambdaFail(n) ==
    <<Define("x", N(0)), FailingBody(n), Define("w", N(5)), S("w")>>

\* (car (cons a b)) and (cdr (cons a b)) for a = n and b = n + 1, then a
\* define at top level and a reference to it.
ConsOf(n) == Call(S("cons"), <<N(n), N(n + 1)>>)
Prims(n) ==
    <<Call(S("car"), <<ConsOf(n)>>), Call(S("cdr"), <<ConsOf(n)>>),
      Define("u", N(n)), S("u")>>

\* A lambda with each kind of parameter list, called with two arguments:
\* an improper list, a list with a non-symbol, a list with the same symbol
\* twice, a list of distinct symbols.
ParamLists ==
    <<Improper(<<S("a")>>, S("b")),
      Ls(<<S("a"), N(1)>>),
      Ls(<<S("a"), S("a")>>),
      Ls(<<S("a"), S("b")>>)>>
\* The symbols written in each of the lists.
ParamSymbols == <<<<"a", "b">>, <<"a">>, <<"a", "a">>, <<"a", "b">>>>
Params(n) ==
    <<Define("x", N(0)),
      Call(Ls(<<S("lambda"), ParamLists[n], S("a")>>), <<N(1), N(2)>>)>>

\* The unquoted empty list, in each place.
Unquoted(n) == <<Define("x", N(0)), Placed(Ls(<<>>), Places[n]), S("x")>>

\* A call whose operator is no procedure and whose operands set t and
\* define w; then t and w are listed.
NonProcedures == <<N(5), B(TRUE), Quote(S("a")), Call(S("cons"), <<N(1), N(2)>>)>>
NotProc(n) ==
    <<Define("t", N(0)),
      Call(NonProcedures[n], <<SetBang("t", N(1)), Define("w", N(2))>>),
      Call(S("list"), <<S("t"), S("w")>>)>>

\* A program: its family, the family's parameters, whether it is run by
\* evaluate_file (which stops at the first error) or form by form by a
\* caller of evaluate, and its text.
Program(name, n, ps, ds, file, text) ==
    [name |-> name, n |-> n, ps |-> ps, ds |-> ds, file |-> file,
     text |-> text]
Simple(name, n, file, text) == Program(name, n, <<>>, <<>>, file, text)

Programs ==
    {Simple("tail_if", n, TRUE, TailIf(n)) : n \in 0..MaxN}
    \cup {Simple("tail_seq", n, TRUE, TailSeq(n)) : n \in 0..MaxN}
    \cup {Simple("non_tail", n, TRUE, NonTail(n)) : n \in 0..MaxN}
    \cup {Program("local_defs", 0, ps, ds, TRUE, LocalDefs(ps, ds)) :
              ps \in SeqsUpTo(ParamNames, MaxParams),
              ds \in SeqsUpTo(DefNames, MaxDefs)}
    \cup {Simple("forward_ref", n, TRUE, ForwardRef(n)) : n \in 0..MaxN}
    \cup {Simple("set_global", n, FALSE, SetGlobal(n)) : n \in 1..2}
    \cup {Simple("set_global", n, TRUE, SetGlobal(n)) : n \in 3..3}
    \cup {Simple("unset_ref", n, FALSE, UnsetRef(n)) : n \in 1..4}
    \cup {Simple("redefine", n, TRUE, Redefine(n)) : n \in 1..MaxN}
    \cup {Simple("nested", n, TRUE, Nested(n)) : n \in 1..MaxN}
    \cup {Simple("closure", n, TRUE, Closure(n)) : n \in 1..3}
    \cup {Simple("cond", n, TRUE, Cond(n)) : n \in 1..Len(CondValues)}
    \cup {Simple("order", n, TRUE, Order(n)) : n \in 0..MaxN}
    \cup {Simple("backtrace", n, TRUE, Backtrace(n)) : n \in 1..(2 * Positions)}
    \cup {Simple("file", n, TRUE, File(n)) : n \in 0..4}
    \cup {Simple("begin", n, TRUE, BeginMarks(n)) : n \in 1..MaxN}
    \cup {Simple("begin_fail", n, FALSE, BeginFail(n)) : n \in 1..MaxN}
    \cup {Program("arity", n, SubSeq(LevelNames, 1, k), <<>>, FALSE,
                   Arity(SubSeq(LevelNames, 1, k), n)) :
              k \in 0..MaxParams, n \in 0..(MaxParams + 1)}
    \cup {Simple("order_fail", n, FALSE, OrderFail(n)) : n \in 0..MaxN}
    \cup {Simple("lambda_fail", n, FALSE, LambdaFail(n)) : n \in 1..MaxN}
    \cup {Simple("prims", n, TRUE, Prims(n)) : n \in 1..MaxN}
    \cup {Program("params", n, ParamSymbols[n], <<>>, FALSE, Params(n)) :
              n \in 1..Len(ParamLists)}
    \cup {Simple("unquoted", n, FALSE, Unquoted(n)) : n \in 1..Len(Places)}
    \cup {Simple("not_proc", n, FALSE, NotProc(n)) :
              n \in 1..Len(NonProcedures)}
    \cup {Simple("shape_bad", n, FALSE, Shape(ShapeBad, n)) :
              n \in 1..(Len(ShapeBad) * Len(Places))}
    \cup {Simple("shape_good", n, FALSE, Shape(ShapeGood, n)) :
              n \in 1..(Len(ShapeGood) * Len(Places))}

\* ------------------------------------------------------------------- state
VARIABLES
    prog,     \* the program being run: its name, parameter and forms
    pc,       \* the index of the next top-level form
    env,      \* heap.environment
    acts,     \* the activations of the heap; acts[1] is the global one
    procs,    \* the procedures of the heap
    ncons,    \* the number of cons cells allocated at run time
    stack,    \* the host call stack, outermost frame first
    ctl,      \* what the innermost host frame does next
    results,  \* what evaluate returned for each top-level form so far
    analyzed, \* what analyze returned for each top-level form so far
    trace     \* the Meanings evaluate_to_thunk was called on, in order

vars == <<prog, pc, env, acts, procs, ncons, stack, ctl, results, analyzed,
          trace>>

\* A host frame: k names the function, m and a are its Meaning and
\* activation, vals the values it has collected, run whether a
\* Meaning::evaluate frame has entered the loop of Trampoline::run.
Frame(k, m, a) == [k |-> k, m |-> m, a |-> a, vals |-> <<>>, run |-> FALSE]

Top == stack[Len(stack)]
Pop(st) == SubSeq(st, 1, Len(st) - 1)

Idle == [mode |-> "idle"]
Done == [mode |-> "done"]
Halt == [mode |-> "panic"]
Eval(m, a) == [mode |-> "eval", m |-> m, a |-> a]
Ret(r) == [mode |-> "ret", r |-> r]

\* An evaluate_to_thunk that returns the evaluator's error as it is.
wrap_nothing(m, r) == r

\* Meaning::evaluate_to_thunk puts the Meaning's location in front of an
\* error of its evaluator.
wrap(m, r) ==
    IF r.k = "Err" THEN [r EXCEPT !.e.locs = <<m.loc>> \o @] ELSE r

\* Heap::new and the registration of the primitives.
Init ==
    /\ prog \in {[name |-> p.name, n |-> p.n, ps |-> p.ps, ds |-> p.ds,
                  file |-> p.file,
                  forms |-> [k \in 1..Len(p.text) |-> Read(p.text[k], <<k>>)]] :
                 p \in Programs}
    /\ pc = 1
    /\ LET h == define_primitives(<<<<>>>>, GlobalAct, 1)
       IN  /\ env = h.env
           /\ acts = <<h.act>>
    /\ procs = <<>>
    /\ ncons = 0
    /\ stack = <<>>
    /\ ctl = IF prog.forms = <<>> THEN Done ELSE Idle
    /\ results = <<>>
    /\ analyzed = <<>>
    /\ trace = <<>>

\* An evaluate_file that goes on with the next form after an error.
AfterForm_goes_on(ok) ==
    IF pc = Len(prog.forms) THEN Done ELSE Idle

\* What the caller of evaluate does with its result: evaluate_file returns
\* at the first error, a caller of evaluate itself goes on to the next form.
AfterForm(ok) ==
    IF prog.file /\ ~ok THEN Done
    ELSE IF pc = Len(prog.forms) THEN Done
    ELSE Idle

\* eval::evaluate: the form is analyzed and its Meaning evaluated in the
\* global activation.
Evaluate ==
    /\ ctl.mode = "idle"
    /\ pc <= Len(prog.forms)
    /\ prog.forms[pc] # ReadError
    /\ LET r == analyze(env, prog.forms[pc], <<pc>>)
       IN  /\ env' = r.env
           /\ IF r.ok
              THEN /\ analyzed' = Append(analyzed, [ok |-> TRUE, m |-> r.m])
                   /\ stack' = <<Frame("evaluate", r.m, 1)>>
                   /\ ctl' = Eval(r.m, 1)
                   /\ UNCHANGED <<pc, results>>
              ELSE /\ analyzed' = Append(analyzed,
                                         [ok |-> FALSE, err |-> r.err])
                   /\ results' = Append(results,
                                        [ok |-> FALSE, err |-> r.err])
                   /\ ctl' = AfterForm(FALSE)
                   /\ pc' = pc + 1
                   /\ UNCHANGED stack
    /\ UNCHANGED <<prog, acts, procs, ncons, trace>>

\* evaluate_file, at a form the reader could not read: try!(read_result)
\* returns the reader's error.
ReadFails ==
    /\ ctl.mode = "idle"
    /\ pc <= Len(prog.forms)
    /\ prog.forms[pc] = ReadError
    /\ results' = Append(results,
                         [ok |-> FALSE,
                          err |-> [msg |-> "read error", name |-> "",
                                   locs |-> <<>>]])
    /\ ctl' = AfterForm(FALSE)
    /\ pc' = pc + 1
    /\ UNCHANGED <<prog, env, acts, procs, ncons, stack, analyzed, trace>>

\* evaluate_file's return value: the result variable, EmptyList until a
\* form's value is put in it, or the first error.
evaluate_file(rs) ==
    IF rs = <<>> THEN [ok |-> TRUE, v |-> EmptyList] ELSE rs[Len(rs)]

\* The call of evaluate_to_thunk on the current Meaning is recorded.
Enter(kind) ==
    /\ ctl.mode = "eval"
    /\ ctl.m.d = kind
    /\ trace' = Append(trace, [d |-> ctl.m.d, loc |-> ctl.m.loc, a |-> ctl.a])

evaluate_quotation(m) == Value(m.val)

EvaluateQuotation ==
    /\ Enter("Quotation")
    /\ ctl' = Ret(wrap(ctl.m, evaluate_quotation(ctl.m)))
    /\ UNCHANGED <<prog, pc, env, acts, procs, ncons, stack, results,
                   analyzed>>

\* An evaluate_reference that reads an unset slot as the unspecified value.
evaluate_reference_lenient(as, m, a) ==
    LET val == Activation_fetch(as, a, m.i, m.j)
    IN  IF val = Unset THEN Value(Unspecified) ELSE Value(val)

\* evaluate_reference: the value of the slot, or the error.
evaluate_reference(as, m, a) ==
    LET val == Activation_fetch(as, a, m.i, m.j)
    IN  IF val = Unset
        THEN [k |-> "Err",
              e |-> [msg |-> "Reference to variable that hasn't been defined",
                     name |-> m.name, locs |-> <<>>]]
        ELSE Value(val)

EvaluateReference ==
    /\ Enter("Reference")
    /\ LET r == evaluate_reference(acts, ctl.m, ctl.a)
       IN  ctl' = IF r.k = "Value" /\ r.v.t = "panic" THEN Halt
                  ELSE Ret(wrap(ctl.m, r))
    /\ UNCHANGED <<prog, pc, env, acts, procs, ncons, stack, results,
                   analyzed>>

\* Value::new_procedure: arity, the current activation and the body.
new_procedure(m, a) ==
    [arity |-> m.arity, act |-> a, body |-> m.body, names |-> m.names,
     params |-> m.params]

EvaluateLambda ==
    /\ Enter("Lambda")
    /\ procs' = Append(procs, new_procedure(ctl.m, ctl.a))
    /\ ctl' = Ret(Value(Procedure(Len(procs) + 1)))
    /\ UNCHANGED <<prog, pc, env, acts, ncons, stack, results, analyzed>>

\* The evaluators that first evaluate a sub-Meaning to completion
\* (Meaning::evaluate) in the current activation.
first_sub(m) ==
    IF m.d \in {"Definition", "SetVariable"} THEN m.sub
    ELSE IF m.d = "Conditional" THEN m.cond
    ELSE IF m.d = "Sequence" THEN m.first
    ELSE m.proc

call_evaluate(fname) ==
    /\ stack' = stack \o <<Frame(fname, ctl.m, ctl.a),
                           Frame("evaluate", first_sub(ctl.m), ctl.a)>>
    /\ ctl' = Eval(first_sub(ctl.m), ctl.a)
    /\ UNCHANGED <<prog, pc, env, acts, procs, ncons, results, analyzed>>

EvaluateDefinition ==
    /\ Enter("Definition")
    /\ call_evaluate("evaluate_definition")

EvaluateSetVariable ==
    /\ Enter("SetVariable")
    /\ call_evaluate("evaluate_set_variable")

EvaluateConditional ==
    /\ Enter("Conditional")
    /\ call_evaluate("evaluate_conditional")

EvaluateSequence ==
    /\ Enter("Sequence")
    /\ call_evaluate("evaluate_sequence")

EvaluateInvocation ==
    /\ Enter("Invocation")
    /\ call_evaluate("evaluate_invocation")

\* The sub-Meaning's evaluate has returned r to the evaluator fname.
Returned(fname) ==
    /\ ctl.mode = "ret"
    /\ stack # <<>>
    /\ Top.k = fname

\* try!: the evaluator returns the error of its sub-Meaning.
Failed == ctl.r.k = "Err"

\* An evaluate_definition that writes the slot the way set! does, so that
\* a slot the activation does not have yet is an error.
evaluate_definition_by_update(as, m, a, val) ==
    LET u == Activation_update(as, a, m.i, m.j, val)
    IN  IF u.ok THEN [acts |-> u.acts, r |-> Value(Unspecified)]
        ELSE [acts |-> u.acts, r |-> Error("Cannot define the variable")]

\* evaluate_definition after the value: the slot is defined.
evaluate_definition(as, m, a, val) ==
    [acts |-> Activation_define(as, a, m.j, val, m.name),
     r |-> Value(Unspecified)]

DefinitionReturn ==
    /\ Returned("evaluate_definition")
    /\ LET o == IF Failed THEN [acts |-> acts, r |-> ctl.r]
                ELSE evaluate_definition(acts, Top.m, Top.a, ctl.r.v)
       IN  /\ acts' = o.acts
           /\ ctl' = Ret(wrap(Top.m, o.r))
    /\ stack' = Pop(stack)
    /\ UNCHANGED <<prog, pc, env, procs, ncons, results, analyzed, trace>>

\* An evaluate_set_variable that writes slot j of the current activation.
evaluate_set_variable_innermost(as, m, a, val) ==
    [acts |-> Activation_define(as, a, m.j, val, m.name),
     r |-> Value(Unspecified)]

\* An evaluate_set_variable that writes the slot whether or not it holds a
\* value.
evaluate_set_variable_by_define(as, m, a, val) ==
    [acts |-> Activation_define(as, Walk(as, a, m.i), m.j, val, m.name),
     r |-> Value(Unspecified)]

\* evaluate_set_variable after the value: the slot is updated, or the
\* error returned.
evaluate_set_variable(as, m, a, val) ==
    LET u == Activation_update(as, a, m.i, m.j, val)
    IN  IF u.ok THEN [acts |-> u.acts, r |-> Value(Unspecified)]
        ELSE [acts |-> u.acts,
              r |-> Error("Cannot set variable before it has been defined")]

SetVariableReturn ==
    /\ Returned("evaluate_set_variable")
    /\ LET o == IF Failed THEN [acts |-> acts, r |-> ctl.r]
                ELSE evaluate_set_variable(acts, Top.m, Top.a, ctl.r.v)
       IN  /\ acts' = o.acts
           /\ ctl' = IF Walk(acts, Top.a, Top.m.i) = 0 /\ ~Failed THEN Halt
                     ELSE Ret(wrap(Top.m, o.r))
    /\ stack' = Pop(stack)
    /\ UNCHANGED <<prog, pc, env, procs, ncons, results, analyzed, trace>>

\* A truthiness in which 0 and the empty list are false too.
chosen_branch_zero_is_false(m, val) ==
    IF val = new_boolean(FALSE) \/ val = new_integer(0) \/ val = EmptyList
    THEN m.alt
    ELSE m.cons

\* evaluate_conditional after the condition: the chosen branch.
chosen_branch(m, val) ==
    IF val = new_boolean(FALSE) THEN m.alt ELSE m.cons

evaluate_conditional(m, a, val) == Thunk(a, chosen_branch(m, val))

ConditionalReturn ==
    /\ Returned("evaluate_conditional")
    /\ ctl' = Ret(wrap(Top.m, IF Failed THEN ctl.r
                              ELSE evaluate_conditional(Top.m, Top.a,
                                                        ctl.r.v)))
    /\ stack' = Pop(stack)
    /\ UNCHANGED <<prog, pc, env, acts, procs, ncons, results, analyzed,
                   trace>>

\* An evaluate_sequence that hands back its first part again.
evaluate_sequence_repeats_first(m, a) == Thunk(a, m.first)

\* evaluate_sequence after the first part: the second is the tail.
evaluate_sequence(m, a) == Thunk(a, m.second)

SequenceReturn ==
    /\ Returned("evaluate_sequence")
    /\ ctl' = Ret(wrap(Top.m, IF Failed THEN ctl.r
                              ELSE evaluate_sequence(Top.m, Top.a)))
    /\ stack' = Pop(stack)
    /\ UNCHANGED <<prog, pc, env, acts, procs, ncons, results, analyzed,
                   trace>>

\* Dynamic scope: the new activation hangs below the caller's.
extend_parent_dynamic(proc, caller) == caller

\* The parent of the activation of a call: the one the procedure captured.
extend_parent(proc, caller) == proc.act

\* A comparison that lets surplus arguments pass.
arity_cmp_at_least(arity, n) ==
    IF arity > n THEN "Error: too few arguments passed" ELSE ""

\* proc_ptr.arity.cmp(args.len()): the error of Less and of Greater, or ""
\* when they are equal.
arity_cmp(arity, n) ==
    IF arity < n THEN "Error: too many arguments passed"
    ELSE IF arity > n THEN "Error: too few arguments passed"
    ELSE ""

\* apply_invocation; caller is the activation the invocation runs in.
apply_invocation(as, ps, n, proc_val, args, caller) ==
    IF proc_val.t = "prim"
    THEN [acts |-> as, ncons |-> n + cells_of(proc_val.name, args),
          r |-> primitive_call(proc_val.name, args, n + 1)]
    ELSE IF proc_val.t = "proc"
    THEN LET proc == ps[proc_val.p]
         IN  IF arity_cmp(proc.arity, Len(args)) # ""
             THEN [acts |-> as, ncons |-> n,
                   r |-> Error(arity_cmp(proc.arity, Len(args)))]
             ELSE [acts |-> Activation_extend(as,
                                              extend_parent(proc, caller),
                                              args, proc.names, proc.params),
                   ncons |-> n,
                   r |-> Thunk(Len(as) + 1, proc.body)]
    ELSE [acts |-> as, ncons |-> n,
          r |-> Error("Error: expected a procedure to call")]

\* Operands taken from the last to the first.
next_param_backwards(m, vals) == m.params[Len(m.params) + 1 - Len(vals)]

\* The operand evaluate_invocation evaluates when vals holds the operator
\* and the operands evaluated so far.
next_param(m, vals) == m.params[Len(vals)]

\* An evaluate_invocation that applies as soon as the operator is known to
\* be no procedure.
args_collected_or_no_procedure(m, vals) ==
    Len(vals) > Len(m.params) \/ vals[1].t \notin {"prim", "proc"}

\* evaluate_invocation goes on to apply_invocation when collect() has
\* taken the value of every parameter; vals holds the operator's value
\* and the parameters' values so far.
args_collected(m, vals) == Len(vals) > Len(m.params)

\* evaluate_invocation: the operator, then the parameters in order, each
\* evaluated to completion, then the application.
InvocationReturn ==
    /\ Returned("evaluate_invocation")
    /\ LET m == Top.m
           vals == Append(Top.vals, ctl.r.v)
       IN  IF Failed
           THEN /\ ctl' = Ret(wrap(m, ctl.r))
                /\ stack' = Pop(stack)
                /\ UNCHANGED <<acts, ncons>>
           ELSE IF ~args_collected(m, vals)
           THEN /\ ctl' = Eval(next_param(m, vals), Top.a)
                /\ stack' = Append([stack EXCEPT ![Len(stack)].vals = vals],
                                   Frame("evaluate", next_param(m, vals),
                                         Top.a))
                /\ UNCHANGED <<acts, ncons>>
           ELSE LET o == apply_invocation(acts, procs, ncons, vals[1],
                                          Tail(vals), Top.a)
                IN  /\ ctl' = Ret(wrap(m, o.r))
                    /\ stack' = Pop(stack)
                    /\ acts' = o.acts
                    /\ ncons' = o.ncons
    /\ UNCHANGED <<prog, pc, env, procs, results, analyzed, trace>>

\* A run that evaluates the thunk by calling Meaning::evaluate again instead
\* of looping.
trampoline_thunk_recursive(st, r) == Append(st, Frame("evaluate", r.m, r.a))

\* Trampoline::run, on a Thunk: the loop goes on with the thunk's
\* activation and Meaning, in the same host frame.
trampoline_thunk(st, r) == [st EXCEPT ![Len(st)].run = TRUE]

TrampolineLoop ==
    /\ Returned("evaluate")
    /\ ctl.r.k = "Thunk"
    /\ stack' = trampoline_thunk(stack, ctl.r)
    /\ ctl' = Eval(ctl.r.m, ctl.r.a)
    /\ UNCHANGED <<prog, pc, env, acts, procs, ncons, results, analyzed,
                   trace>>

\* Meaning::evaluate returns a value or an error to the evaluator that
\* called it.
EvaluateReturn ==
    /\ Returned("evaluate")
    /\ ctl.r.k # "Thunk"
    /\ Len(stack) > 1
    /\ stack' = Pop(stack)
    /\ UNCHANGED <<prog, pc, env, acts, procs, ncons, ctl, results, analyzed,
                   trace>>

\* eval::evaluate returns the result of the top-level form.
FormDone ==
    /\ Returned("evaluate")
    /\ ctl.r.k # "Thunk"
    /\ Len(stack) = 1
    /\ stack' = <<>>
    /\ results' = Append(results,
                         IF ctl.r.k = "Value" THEN [ok |-> TRUE, v |-> ctl.r.v]
                         ELSE [ok |-> FALSE, err |-> ctl.r.e])
    /\ ctl' = AfterForm(ctl.r.k = "Value")
    /\ pc' = pc + 1
    /\ UNCHANGED <<prog, env, acts, procs, ncons, analyzed, trace>>

Next ==
    \/ Evaluate
    \/ ReadFails
    \/ EvaluateQuotation
    \/ EvaluateReference
    \/ EvaluateLambda
    \/ EvaluateDefinition
    \/ EvaluateSetVariable
    \/ EvaluateConditional
    \/ EvaluateSequence
    \/ EvaluateInvocation
    \/ DefinitionReturn
    \/ SetVariableReturn
    \/ ConditionalReturn
    \/ SequenceReturn
    \/ InvocationReturn
    \/ TrampolineLoop
    \/ EvaluateReturn
    \/ FormDone

Spec == Init /\ [][Next]_vars

\* ============================================================== properties
Finished == ctl.mode = "done"
OkValue(v) == [ok |-> TRUE, v |-> v]
\* The k-th top-level form has returned the value v.
Returns(k, v) == Len(results) >= k /\ results[k] = OkValue(v)
\* The k-th top-level form has returned a list of the values vs.
ReturnsList(k, vs) ==
    /\ Len(results) >= k
    /\ results[k].ok
    /\ len(results[k].v) = Len(vs)
    /\ ListItems(results[k].v) = vs
\* The k-th top-level form has failed with the message msg about name.
Fails(k, msg, name) ==
    /\ Len(results) >= k
    /\ ~results[k].ok
    /\ results[k].err.msg = msg
    /\ results[k].err.name = name

\* The Meaning::evaluate frames (each with its Trampoline::run) on the
\* host stack.
EvaluateDepth ==
    Cardinality({k \in 1..Len(stack) : stack[k].k = "evaluate"})

\* The operator value of the invocation whose last operand has returned.
Callee == IF Top.vals = <<>> THEN ctl.r.v ELSE Top.vals[1]
\* evaluate_invocation is about to apply its callee.
Applying ==
    /\ Returned("evaluate_invocation")
    /\ ~Failed
    /\ Len(Top.vals) = Len(Top.m.params)
\* ... and the callee is a procedure that gets as many arguments as it has
\* parameters.
Calling ==
    /\ Applying
    /\ Callee.t = "proc"
    /\ procs[Callee.p].arity = Len(Top.m.params)

\* ---- C1
TailLoop == prog.name \in {"tail_if", "tail_seq"}

C1_DepthBounded == TailLoop => EvaluateDepth <= 3

C1_TailHandedBack ==
    /\ (Returned("evaluate_conditional") /\ ~Failed)
           => /\ stack' = Pop(stack)
              /\ ctl'.mode = "ret" /\ ctl'.r.k = "Thunk"
              /\ ctl'.r.a = Top.a
              /\ ctl'.r.m \in {Top.m.cons, Top.m.alt}
    /\ (Returned("evaluate_sequence") /\ ~Failed)
           => /\ stack' = Pop(stack)
              /\ ctl' = Ret(Thunk(Top.a, Top.m.second))
    /\ Calling
           => /\ stack' = Pop(stack)
              /\ ctl' = Ret(Thunk(Len(acts) + 1, procs[Callee.p].body))
    /\ (Returned("evaluate") /\ ctl.r.k = "Thunk")
           => /\ Len(stack') = Len(stack)
              /\ ctl' = Eval(ctl.r.m, ctl.r.a)

\* C1: a procedure that calls itself in tail position (as the chosen branch
\* of an if, or as the last form of a sequence) runs n iterations with at
\* most 3 nested Meaning::evaluate / Trampoline::run frames on the host
\* stack, whatever n is: every Conditional, every Sequence and every
\* Invocation of a Procedure returns its tail Meaning as a Thunk and leaves
\* the host stack, and the driver loop goes on with the Thunk in the frame
\* it already has.
C1_TailCallsInConstantStack ==
    [](C1_DepthBounded) /\ [][C1_TailHandedBack]_vars

\* The last iteration of the longest loop is running (its activation is the
\* last of n + 1), three evaluate frames deep.
C1_Witness ==
    /\ prog.name = "tail_seq" /\ prog.n = MaxN
    /\ Len(acts) = MaxN + 2
    /\ EvaluateDepth = 3

\* ---- C2
\* A Reference is about to be executed / a Definition or SetVariable has
\* its value and is about to write.
AtReference == ctl.mode = "eval" /\ ctl.m.d = "Reference"
AtWrite ==
    /\ \/ Returned("evaluate_definition")
       \/ Returned("evaluate_set_variable")
    /\ ~Failed
HasSlot(a, i, j) ==
    /\ Walk(acts, a, i) # 0
    /\ j < Len(acts[Walk(acts, a, i)].slots)

C2_ChainReaches ==
    /\ AtReference => Walk(acts, ctl.a, ctl.m.i) # 0
    /\ AtWrite => Walk(acts, Top.a, Top.m.i) # 0
    /\ (AtWrite /\ Top.m.d = "Definition") => Top.m.i = 0

C2_SlotsGrow ==
    /\ Calling
           => /\ Len(acts') = Len(acts) + 1
              /\ acts'[Len(acts')].slots = Tail(Append(Top.vals, ctl.r.v))
              /\ Len(acts'[Len(acts')].slots) = procs[Callee.p].arity
    /\ (Returned("evaluate_definition") /\ ~Failed)
           => /\ ctl'.r.k = "Value"
              /\ Len(acts'[Top.a].slots) > Top.m.j
              /\ acts'[Top.a].slots[Top.m.j + 1] = ctl.r.v
              /\ Len(acts'[Top.a].slots) =
                     IF Top.m.j < Len(acts[Top.a].slots)
                     THEN Len(acts[Top.a].slots) ELSE Top.m.j + 1

NoRepeat(names) ==
    \A k, l \in 1..Len(names) : names[k] = names[l] => k = l

\* Slot j of the activation i parents out from a, when it holds a value,
\* was written by the parameter binding or the Definition of name, and, in
\* an activation whose parameters have different names, no other slot was.
WrittenFor(a, i, j, name) ==
    LET t == Walk(acts, a, i)
    IN  /\ t # 0
        /\ (j < Len(acts[t].slots) /\ acts[t].slots[j + 1] # Unset)
               => acts[t].by[j + 1] = name
        /\ NoRepeat(prog.ps)
               => \A q \in 1..Len(acts[t].by) :
                      acts[t].by[q] = name => q = j + 1

\* What the innermost lambda of nested(n) lists, and what the lambda of
\* local_defs(ps, ds) lists when no name is repeated.
NestedList == [k \in 1..(prog.n + 1) |-> IF k <= prog.n THEN N(k) ELSE N(0)]
LocalDefsList ==
    [k \in 1..(Len(prog.ps) + Len(prog.ds)) |->
         IF k <= Len(prog.ps) THEN N(k) ELSE N(10 + k - Len(prog.ps))]
\* With repeated names all occurrences of a name share its first slot: it
\* holds the value of the last define of the name or, when no define names
\* it, the argument bound to its first parameter.
LastFor(name) ==
    LET Last(xs) == CHOOSE q \in 1..Len(xs) :
                        /\ xs[q] = name
                        /\ \A r \in (q + 1)..Len(xs) : xs[r] # name
        First(xs) == CHOOSE q \in 1..Len(xs) :
                         /\ xs[q] = name
                         /\ \A r \in 1..(q - 1) : xs[r] # name
    IN  IF \E q \in 1..Len(prog.ds) : prog.ds[q] = name
        THEN N(10 + Last(prog.ds))
        ELSE N(First(prog.ps))
LocalDefsLast ==
    [k \in 1..(Len(prog.ps) + Len(prog.ds)) |->
         LastFor((prog.ps \o prog.ds)[k])]

\* C3: every executed Reference to a symbol s, with the coordinate (i, j)
\* it was analyzed to, reaches the slot that the parameter binding or the
\* Definition of s wrote (and so does every SetVariable and Definition of
\* s); lambdas nested n deep return their n parameters and the global, and
\* a lambda whose binding list repeats a name returns for it the value
\* written last to the one slot of that name.
C3_NoCoordinateDrift ==
    /\ AtReference => WrittenFor(ctl.a, ctl.m.i, ctl.m.j, ctl.m.name)
    /\ AtWrite => WrittenFor(Top.a, Top.m.i, Top.m.j, Top.m.name)
    /\ (Finished /\ prog.name = "nested") => ReturnsList(2, NestedList)
    /\ (Finished /\ prog.name = "local_defs")
           => ReturnsList(1, LocalDefsLast)

\* The innermost of MaxN nested lambdas reads the parameter of the
\* outermost one, MaxN - 1 activations out.
C3_Witness ==
    /\ prog.name = "nested" /\ prog.n = MaxN
    /\ AtReference
    /\ ctl.m.i = MaxN - 1
    /\ ctl.m.name = "a"
    /\ Activation_fetch(acts, ctl.a, ctl.m.i, ctl.m.j) = N(1)

\* ---- C4
\* g is referenced in forward_ref under n + 1 lambdas while it is bound
\* nowhere; the second form defines it, the third calls the procedure.
C4_SameGlobalSlot ==
    (prog.name = "forward_ref" /\ Len(analyzed) >= 2)
        => /\ analyzed[2].ok
           /\ analyzed[2].m.d = "Definition"
           /\ analyzed[2].m.i = 0
           /\ (AtReference /\ ctl.m.name = "g")
                  => /\ Walk(acts, ctl.a, ctl.m.i) = 1
                     /\ ctl.m.j = analyzed[2].m.j

\* C4: a symbol bound nowhere when a lambda body referring to it is
\* analyzed, and defined at top level before the procedure is called, is
\* read by the call from the global slot the define wrote: the call returns
\* the defined value, and the global frame holds the name once.
C4_ForwardReferenceResolves ==
    /\ C4_SameGlobalSlot
    /\ prog.name = "forward_ref"
           => /\ Cardinality({k \in 1..Len(env[1]) : env[1][k] = "g"}) <= 1
              /\ Finished => Returns(3, N(7 + prog.n))

\* The reference under MaxN + 1 lambdas is executed after the define.
C4_Witness ==
    /\ prog.name = "forward_ref" /\ prog.n = MaxN
    /\ AtReference /\ ctl.m.name = "g"
    /\ ctl.m.i = MaxN + 1
    /\ Returns(2, Unspecified)
    /\ Activation_fetch(acts, ctl.a, ctl.m.i, ctl.m.j) = N(7 + MaxN)

\* ---- C5
SetBeforeDefine == "Cannot set variable before it has been defined"
UnsetReference == "Reference to variable that hasn't been defined"

\* evaluate_set_variable has the value to store.
AtSet == Returned("evaluate_set_variable") /\ ~Failed
SetTarget == Activation_fetch(acts, Top.a, Top.m.i, Top.m.j)

\* A SetVariable whose slot is unset changes no activation and returns the
\* error, under the location of the set! form; one whose slot holds a
\* value stores the new value there and returns Unspecified.
C5_SetStep ==
    AtSet =>
        IF SetTarget = Unset
        THEN /\ acts' = acts
             /\ ctl' = Ret([k |-> "Err",
                            e |-> [msg |-> SetBeforeDefine, name |-> "",
                                   locs |-> <<Top.m.loc>>]])
        ELSE /\ ctl' = Ret(Value(Unspecified))
             /\ Activation_fetch(acts', Top.a, Top.m.i, Top.m.j) = ctl.r.v

\* set_global(1): set!, reference, define, set!, reference at top level.
\* set_global(2): the set! is the body of a procedure called before and
\* after the define.  set_global(3): a file that starts with the set!.
C5_SetGlobalResults ==
    /\ (prog.name = "set_global" /\ Len(analyzed) >= 1)
           => /\ analyzed[1].ok
              /\ prog.n # 2 => analyzed[1].m.d = "SetVariable"
              /\ prog.n = 2 => analyzed[1].m.sub.body.d = "SetVariable"
    /\ (Finished /\ prog.name = "set_global" /\ prog.n = 1)
           => /\ Fails(1, SetBeforeDefine, "")
              /\ Fails(2, UnsetReference, "foo")
              /\ Returns(3, Unspecified)
              /\ Returns(4, Unspecified)
              /\ Returns(5, N(5))
    /\ (Finished /\ prog.name = "set_global" /\ prog.n = 2)
           => /\ Fails(2, SetBeforeDefine, "")
              /\ Fails(3, UnsetReference, "foo")
              /\ Returns(5, Unspecified)
              /\ Returns(6, N(5))
    /\ (Finished /\ prog.name = "set_global" /\ prog.n = 3)
           => /\ Fails(1, SetBeforeDefine, "")
              /\ Len(results) = 1

\* C5: analyze accepts a set! of a name bound nowhere; evaluated while the
\* name's slot is unset it returns "Cannot set variable before it has been
\* defined" and leaves the slot unset, so that a later reference still
\* fails; evaluated after a define of the name it overwrites the slot and
\* returns Unspecified.
C5_SetBeforeDefine == [](C5_SetGlobalResults) /\ [][C5_SetStep]_vars

\* The set! in the procedure body has failed once, the define has run, and
\* the same SetVariable is about to store 5 over 0.
C5_Witness ==
    /\ prog.name = "set_global" /\ prog.n = 2
    /\ Fails(2, SetBeforeDefine, "")
    /\ Fails(3, UnsetReference, "foo")
    /\ AtSet
    /\ SetTarget = N(0)
    /\ ctl.r.v = N(5)

\* ---- C6
RefTarget == Activation_fetch(acts, ctl.a, ctl.m.i, ctl.m.j)

\* A Reference on an unset slot returns the error about its name, under its
\* own location, and changes nothing else.
C6_ReferenceStep ==
    (AtReference /\ RefTarget = Unset)
        => /\ ctl' = Ret([k |-> "Err",
                          e |-> [msg |-> UnsetReference, name |-> ctl.m.name,
                                 locs |-> <<ctl.m.loc>>]])
           /\ UNCHANGED <<acts, stack, results>>

\* unset_ref(1): a global bound nowhere, twice at top level; (2): the same
\* inside a called procedure; (3): a local define read before its
\* Definition; (4): a local define read by the value of an earlier one.
C6_UnsetRefResults ==
    (Finished /\ prog.name = "unset_ref")
        => /\ prog.n = 1 => /\ Fails(1, UnsetReference, "g")
                            /\ Fails(2, UnsetReference, "g")
           /\ prog.n = 2 => /\ Returns(1, Unspecified)
                            /\ Fails(2, UnsetReference, "g")
           /\ prog.n = 3 => Fails(1, UnsetReference, "y")
           /\ prog.n = 4 => Fails(1, UnsetReference, "z")

\* C6: evaluating a Reference whose slot is unset returns the error
\* "Reference to variable that hasn't been defined: NAME", never a value
\* and never a halt, also when the slot index is at or past the end of the
\* global activation and when a local define is read before it has run.
C6_UnsetReferenceIsAnError ==
    /\ [](ctl.mode # "panic")
    /\ [](C6_UnsetRefResults)
    /\ [][C6_ReferenceStep]_vars

\* A speculatively defined global is read at a slot index past the end of
\* the global activation.
C6_Witness ==
    /\ prog.name = "unset_ref" /\ prog.n = 1
    /\ Fails(1, UnsetReference, "g")
    /\ AtReference
    /\ ctl.m.j >= Len(acts[1].slots)
    /\ RefTarget = Unset

\* ---- C7
Globals == Len(PrimitiveNames)

\* redefine(n): (define x 1) ... (define x n) x.
C7_SameCoordinate ==
    prog.name = "redefine"
        => /\ \A k \in 1..Len(analyzed) :
                  /\ analyzed[k].ok
                  /\ k <= prog.n
                         => /\ analyzed[k].m.d = "Definition"
                            /\ analyzed[k].m.i = 0
                            /\ analyzed[k].m.j = analyzed[1].m.j
                  /\ k = prog.n + 1
                         => /\ analyzed[k].m.d = "Reference"
                            /\ analyzed[k].m.i = 0
                            /\ analyzed[k].m.j = analyzed[1].m.j
           /\ Len(env[1]) = Globals + (IF analyzed = <<>> THEN 0 ELSE 1)
           /\ \A k \in 1..Len(results) :
                  /\ k <= prog.n
                         => /\ results[k] = OkValue(Unspecified)
                            /\ (ctl.mode \in {"idle", "done"}
                                /\ k = Len(results))
                                   => Activation_fetch(acts, 1, 0,
                                          analyzed[1].m.j) = N(k)
                  /\ k = prog.n + 1 => results[k] = OkValue(N(prog.n))

\* C7: successive top-level defines of one name are all analyzed to the
\* same coordinate (0, j); the global frame gains a name only at the first
\* of them; after each define the slot holds its value, and a reference
\* evaluated afterwards returns the value of the last define executed.
C7_RedefinitionReusesSlot == C7_SameCoordinate

\* MaxN defines of x have run and the reference has returned the last value.
C7_Witness ==
    /\ prog.name = "redefine" /\ prog.n = MaxN
    /\ Finished
    /\ Len(env[1]) = Globals + 1
    /\ Returns(MaxN + 1, N(MaxN))

\* ---- C8
\* The Meanings of a body, in order.
RECURSIVE SeqItems(_)
SeqItems(m) ==
    IF m.d = "Sequence" THEN <<m.first>> \o SeqItems(m.second) ELSE <<m>>

\* local_defs(ps, ds) is ((lambda ps (define d1 11) .. (define dm 10+m)
\* (list ps.. ds..)) 1 .. k).
TheLambda == analyzed[1].m.proc
BodyItems == SeqItems(TheLambda.body)
ListArgs == BodyItems[Len(prog.ds) + 1].params
Analyzed == prog.name = "local_defs" /\ Len(analyzed) >= 1

\* C8 as claimed, for every lambda: the n-th parameter is read at
\* (0, n-1), the n-th local define written and read at (0, k+n-1), the
\* arity is k, and the call with k arguments returns the k arguments
\* followed by the m defined values.
C8_OwnSlotEach ==
    /\ Analyzed
           => /\ analyzed[1].ok
              /\ TheLambda.arity = Len(prog.ps)
              /\ \A n \in 1..Len(prog.ps) :
                     /\ ListArgs[n].i = 0
                     /\ ListArgs[n].j = n - 1
              /\ \A n \in 1..Len(prog.ds) :
                     /\ BodyItems[n].d = "Definition"
                     /\ BodyItems[n].i = 0
                     /\ BodyItems[n].j = Len(prog.ps) + n - 1
                     /\ ListArgs[Len(prog.ps) + n].i = 0
                     /\ ListArgs[Len(prog.ps) + n].j = Len(prog.ps) + n - 1
    /\ (Finished /\ prog.name = "local_defs")
           => ReturnsList(1, LocalDefsList)

\* The slot of a name in the lambda's frame: that of its first occurrence
\* in P1 .. Pk D1 .. Dm.
SlotOf(name) == IndexOf(prog.ps \o prog.ds, name) - 1

\* C8: the body of a lambda with parameters P1..Pk and top-level defines
\* D1..Dm is analyzed in the frame P1..Pk D1..Dm, where every name has the
\* coordinate (0, q-1) of its first occurrence q; the arity is k; the call
\* with k arguments succeeds and the last body form reads, for every name,
\* the value written last to its slot.  When the k+m names are pairwise
\* distinct that is Pn at (0, n-1), Dn at (0, k+n-1), no parameter
\* overwritten, and the result P1..Pk D1..Dm.
C8_LocalDefinitions ==
    /\ Analyzed
           => /\ analyzed[1].ok
              /\ TheLambda.arity = Len(prog.ps)
              /\ TheLambda.names = prog.ps \o prog.ds
              /\ \A n \in 1..Len(prog.ps) :
                     /\ ListArgs[n].i = 0
                     /\ ListArgs[n].j = SlotOf(prog.ps[n])
              /\ \A n \in 1..Len(prog.ds) :
                     /\ BodyItems[n].d = "Definition"
                     /\ BodyItems[n].i = 0
                     /\ BodyItems[n].j = SlotOf(prog.ds[n])
                     /\ ListArgs[Len(prog.ps) + n].i = 0
                     /\ ListArgs[Len(prog.ps) + n].j = SlotOf(prog.ds[n])
    /\ (Finished /\ prog.name = "local_defs")
           => /\ ReturnsList(1, LocalDefsLast)
              /\ NoRepeat(prog.ps \o prog.ds)
                     => /\ ReturnsList(1, LocalDefsList)
                        /\ acts[2].slots = LocalDefsList
                        /\ \A n \in 1..Len(prog.ds) :
                               BodyItems[n].j = Len(prog.ps) + n - 1

\* MaxParams parameters and MaxDefs local defines, all different, after the
\* call has returned.
C8_Witness ==
    /\ prog.name = "local_defs"
    /\ Len(prog.ps) = MaxParams /\ Len(prog.ds) = MaxDefs
    /\ NoRepeat(prog.ps \o prog.ds)
    /\ Finished
    /\ results[1].ok
    /\ Len(acts[2].slots) = MaxParams + MaxDefs

\* ---- C9
AtLambda == ctl.mode = "eval" /\ ctl.m.d = "Lambda"

\* A Procedure records the activation its Lambda was evaluated in, for good.
C9_Captures ==
    /\ AtLambda
           => /\ Len(procs') = Len(procs) + 1
              /\ procs'[Len(procs')].act = ctl.a
    /\ \A p \in 1..Len(procs) : procs'[p] = procs[p]

\* A call makes one new activation: its parent is the one the procedure
\* recorded, its slots are the arguments, its body runs in it; no existing
\* activation changes.
C9_FreshActivation ==
    Calling
        => /\ Len(acts') = Len(acts) + 1
           /\ acts'[Len(acts')].parent = procs[Callee.p].act
           /\ acts'[Len(acts')].slots = Tail(Append(Top.vals, ctl.r.v))
           /\ \A a \in 1..Len(acts) : acts'[a] = acts[a]
           /\ ctl' = Ret(Thunk(Len(acts) + 1, procs[Callee.p].body))

\* closure(1): ((lambda (x) (lambda (y) (+ x y))) 10) applied to 32.
\* closure(2): f reads the global x = 1 when called where x = 2.
\* closure(3): two counters made by the same procedure; the incrementer and
\* the reader of one counter share its variable, the counters do not.
C9_ClosureResults ==
    (Finished /\ prog.name = "closure")
        => /\ prog.n = 1 => Returns(1, N(42))
           /\ prog.n = 2 => Returns(3, N(1))
           /\ prog.n = 3 => /\ Returns(5, N(1))
                            /\ Returns(6, N(10))
                            /\ Returns(9, N(12))
                            /\ Returns(10, N(1))

\* C9: the activation of a call has as parent the activation in which the
\* Lambda was evaluated, not the caller's; free variables are read and
\* written in the defining scope, two procedures made in one activation see
\* each other's set!, and every call gets a fresh activation.
C9_LexicalScope ==
    /\ [](C9_ClosureResults)
    /\ [][C9_Captures /\ C9_FreshActivation]_vars

\* f, made in the global activation, is called from the activation of
\* another call.
C9_Witness ==
    /\ prog.name = "closure" /\ prog.n = 2
    /\ Calling
    /\ Top.a = 2
    /\ procs[Callee.p].act = 1

\* ---- C10
\* What the operands CondValues evaluate to.
CondResults ==
    <<new_boolean(FALSE), new_boolean(TRUE), N(0), EmptyList, N(1),
      S("false"), Primitive("car"), Procedure(2)>>

\* evaluate_conditional, with the condition's value, hands back exactly one
\* branch, to run in the activation of the Conditional: the alternative if
\* the value is #f, the consequent otherwise.
C10_OneBranch ==
    (Returned("evaluate_conditional") /\ ~Failed)
        => /\ ctl' = Ret(Thunk(Top.a,
                               IF ctl.r.v = new_boolean(FALSE)
                               THEN Top.m.alt ELSE Top.m.cons))
           /\ UNCHANGED <<acts, procs, results>>

\* cond(n) calls t with the n-th value: t counts in c the evaluations of its
\* condition, in a those of the consequent and in b those of the
\* alternative, and returns (yes v) or (no v).
C10_CondResults ==
    (Finished /\ prog.name = "cond")
        => IF prog.n = 1
           THEN /\ ReturnsList(5, <<S("no"), CondResults[prog.n]>>)
                /\ ReturnsList(6, <<N(0), N(1), N(1)>>)
           ELSE /\ ReturnsList(5, <<S("yes"), CondResults[prog.n]>>)
                /\ ReturnsList(6, <<N(1), N(0), N(1)>>)

\* C10: a Conditional evaluates its condition once and then exactly one
\* branch, in the current activation: the alternative if and only if the
\* value is the boolean false, the consequent for every other value (0,
\* the empty list, #t, symbols, procedures); the other branch is not
\* evaluated.
C10_OnlyFalseIsFalse == [](C10_CondResults) /\ [][C10_OneBranch]_vars

\* The condition's value is the empty list and the consequent has run.
C10_Witness ==
    /\ prog.name = "cond" /\ CondResults[prog.n] = EmptyList
    /\ Finished
    /\ ReturnsList(5, <<S("yes"), EmptyList>>)
    /\ ReturnsList(6, <<N(1), N(0), N(1)>>)

\* ---- C11
\* evaluate_invocation has the result of its operator or of an operand.
AtOperand == Returned("evaluate_invocation")

\* The operator is evaluated first; with k values collected and no failure
\* the (k+1)-th value to come is operand k, in the activation of the
\* Invocation, in a new evaluate frame above the invocation's; a failure
\* leaves through the invocation's frame with no activation made and no
\* further operand started.
C11_Step ==
    /\ (ctl.mode = "eval" /\ ctl.m.d = "Invocation")
           => ctl' = Eval(ctl.m.proc, ctl.a)
    /\ (AtOperand /\ ~Failed /\ Len(Top.vals) < Len(Top.m.params))
           => /\ ctl' = Eval(Top.m.params[Len(Top.vals) + 1], Top.a)
              /\ Len(stack') = Len(stack) + 1
              /\ acts' = acts
    /\ (AtOperand /\ Failed)
           => /\ stack' = Pop(stack)
              /\ acts' = acts
              /\ ctl'.mode = "ret" /\ ctl'.r.k = "Err"
    /\ (AtOperand /\ Len(acts') > Len(acts))
           => /\ ~Failed
              /\ Len(Top.vals) = Len(Top.m.params)

RECURSIVE Digits(_)
Digits(n) == IF n = 0 THEN 0 ELSE Digits(n - 1) * 10 + n

\* order(n): the operator marks 1, operand k marks k + 1; the call returns
\* the operands' values and t holds the digits 1 .. n+1 in order.
\* order_fail(n): the digits of the operator and of the operands before the
\* failing one, and no digit of the callee's body.
C11_OrderResults ==
    /\ (Finished /\ prog.name = "order")
           => /\ ReturnsList(3, [k \in 1..prog.n |-> N(k + 1)])
              /\ Returns(4, N(Digits(prog.n + 1)))
    /\ (Finished /\ prog.name = "order_fail")
           => /\ Fails(4, UnsetReference, "zz")
              /\ Returns(5, N(Digits(prog.n)))

\* C11: an Invocation evaluates its operator, then its operands 1..n in
\* source order, each to completion before the next starts, and applies
\* the callee after the last; when the operator or an operand fails, no
\* later operand is evaluated and the callee is not applied.
C11_OperandOrder == [](C11_OrderResults) /\ [][C11_Step]_vars

\* The second of MaxN operands has failed after the operator and the first
\* operand were evaluated.
C11_Witness ==
    /\ prog.name = "order_fail" /\ prog.n = 2
    /\ AtOperand /\ Failed
    /\ Len(Top.m.params) = MaxN
    /\ Len(Top.vals) = 2
    /\ Activation_fetch(acts, 1, 0, Globals) = N(12)

\* ---- C12
TooFew == "Error: too few arguments passed"
TooMany == "Error: too many arguments passed"

\* evaluate_invocation is about to apply a procedure to its operands.
ApplyingProcedure == Applying /\ Callee.t = "proc"

\* Fewer or more operands than the arity: the error, under the location of
\* the Invocation, and neither a new activation nor a Meaning evaluated;
\* as many as the arity: a Thunk of the body in a new activation.
C12_ApplyStep ==
    ApplyingProcedure =>
        LET k == procs[Callee.p].arity
            n == Len(Top.m.params)
            Failure(msg) == Ret([k |-> "Err",
                                 e |-> [msg |-> msg, name |-> "",
                                        locs |-> <<Top.m.loc>>]])
        IN  /\ n < k => ctl' = Failure(TooFew) /\ acts' = acts
            /\ n > k => ctl' = Failure(TooMany) /\ acts' = acts
            /\ n = k => /\ ctl' = Ret(Thunk(Len(acts) + 1,
                                            procs[Callee.p].body))
                        /\ Len(acts') = Len(acts) + 1
            /\ trace' = trace

\* arity(ps, n): (define t 0) ((lambda ps (set! t 1)) 1 .. n) t.
C12_ArityResults ==
    (Finished /\ prog.name = "arity")
        => /\ prog.n < Len(prog.ps)
                  => /\ Fails(2, TooFew, "")
                     /\ Returns(3, N(0))
                     /\ Len(acts) = 1
           /\ prog.n > Len(prog.ps)
                  => /\ Fails(2, TooMany, "")
                     /\ Returns(3, N(0))
                     /\ Len(acts) = 1
           /\ prog.n = Len(prog.ps)
                  => /\ Returns(2, Unspecified)
                     /\ Returns(3, N(1))
                     /\ Len(acts) = 2

\* C12: a Procedure of arity k applied to n arguments returns "too few
\* arguments passed" when n < k and "too many arguments passed" when
\* n > k, with no activation created and the body not evaluated; when
\* n = k it returns a Thunk of the body in a new activation.
C12_ArityChecked == [](C12_ArityResults) /\ [][C12_ApplyStep]_vars

\* A procedure of MaxParams parameters is about to be applied to one more
\* argument.
C12_Witness ==
    /\ prog.name = "arity"
    /\ ApplyingProcedure
    /\ procs[Callee.p].arity = MaxParams
    /\ Len(Top.m.params) = MaxParams + 1

\* ---- C13
\* evaluate_sequence starts with its first part, in its own activation;
\* when that has returned a value the second part is handed back, for the
\* same activation; when it has failed nothing more of the sequence runs.
C13_SequenceStep ==
    /\ (ctl.mode = "eval" /\ ctl.m.d = "Sequence")
           => ctl' = Eval(ctl.m.first, ctl.a)
    /\ (Returned("evaluate_sequence") /\ ~Failed)
           => /\ ctl' = Ret(Thunk(Top.a, Top.m.second))
              /\ UNCHANGED <<acts, trace>>
    /\ (Returned("evaluate_sequence") /\ Failed)
           => /\ ctl'.mode = "ret" /\ ctl'.r.k = "Err"
              /\ stack' = Pop(stack)
              /\ UNCHANGED <<acts, trace>>

\* The sub-forms of the begin form, and the Meaning of the first analyzed
\* on its own at the place it is written.
BeginForms == prog.forms[3].cdr
FirstAlone == analyze(env, BeginForms.car, locate(BeginForms))

\* begin(n): the sequence is nested to the right, E1 first; for n = 1 it
\* is the Meaning of E1; the value is that of En and t holds 1 .. n.
\* begin_fail(n): only the digits before the failing sub-form.
C13_BeginResults ==
    /\ (prog.name = "begin" /\ Len(analyzed) >= 3)
           => /\ analyzed[3].ok
              /\ Len(SeqItems(analyzed[3].m)) = prog.n
              /\ SeqItems(analyzed[3].m)[1] = FirstAlone.m
              /\ prog.n = 1 => analyzed[3].m = FirstAlone.m
    /\ (Finished /\ prog.name = "begin")
           => /\ Returns(3, N(prog.n))
              /\ Returns(4, N(Digits(prog.n)))
    /\ (Finished /\ prog.name = "begin_fail")
           => /\ Fails(3, UnsetReference, "zz")
              /\ Returns(4, N(Digits(prog.n - 1)))

\* C13: (begin E1 .. En), n >= 1, evaluates E1 .. En once each, in source
\* order, in the same activation, and returns the value of En; for n = 1
\* its Meaning is that of E1; when Ek fails the later sub-forms are not
\* evaluated.
C13_BeginInOrder == [](C13_BeginResults) /\ [][C13_SequenceStep]_vars

\* All MaxN sub-forms have run in order.
C13_Witness ==
    /\ prog.name = "begin" /\ prog.n = MaxN
    /\ Finished
    /\ Returns(3, N(MaxN))
    /\ Returns(4, N(Digits(MaxN)))

\* ---- C14
\* A form is analyzed only between forms: the host stack is empty and every
\* earlier form has its result; its Meaning is evaluated in the global
\* activation; the environment changes only with an analysis; the forms
\* are taken in file order.
C14_Step ==
    /\ analyzed' # analyzed
           => /\ ctl.mode = "idle" /\ stack = <<>>
              /\ Len(results) = pc - 1
              /\ Len(analyzed') = Len(analyzed) + 1
              /\ analyzed'[Len(analyzed')].ok
                     => stack' = <<Frame("evaluate",
                                         analyzed'[Len(analyzed')].m, 1)>>
    /\ env' # env => analyzed' # analyzed
    /\ pc' \in {pc, pc + 1}
    /\ results' # results
           => /\ pc' = pc + 1
              /\ Len(results') = pc

\* evaluate_file stops at the first error: a failed form is the last one
\* with a result.
C14_StopsAtError ==
    prog.file
        => \A k \in 1..Len(results) :
               ~results[k].ok => Finished /\ k = Len(results)

\* x and y, the first names a file defines.
GlobalX == Activation_fetch(acts, 1, 0, Globals)
GlobalY == Activation_fetch(acts, 1, 0, Globals + 1)

\* file(0) is empty; file(1) redefines x and y and lists them; in file(2),
\* (3) and (4) the third form fails in analysis, in evaluation, in reading.
C14_FileResults ==
    (Finished /\ prog.name = "file")
        => /\ prog.n = 0 => evaluate_file(results) = OkValue(EmptyList)
           /\ prog.n = 1 => /\ Len(results) = 5
                            /\ evaluate_file(results).ok
                            /\ ReturnsList(5, <<N(3), N(4)>>)
           /\ prog.n >= 2 => /\ Len(results) = 3
                             /\ ~evaluate_file(results).ok
                             /\ GlobalX = N(1) /\ GlobalY = N(1)
                             /\ Len(env) = 1
                             /\ env[1][Globals + 1] = "x"
                             /\ env[1][Globals + 2] = "y"
           /\ prog.n = 2 => /\ Len(analyzed) = 3 /\ ~analyzed[3].ok
                            /\ evaluate_file(results).err = analyzed[3].err
           /\ prog.n = 3 => Fails(3, UnsetReference, "zz")
           /\ prog.n = 4 => Fails(3, "read error", "") /\ Len(analyzed) = 2

\* C14: evaluate_file analyzes and evaluates each form completely before it
\* analyzes the next, in file order, in one global environment and
\* activation; it returns the last form's value, EmptyList for an empty
\* file, or the first read, static or runtime error, after which no form is
\* evaluated and the earlier definitions stay.
C14_FileInOrder ==
    /\ [](C14_FileResults)
    /\ [](C14_StopsAtError)
    /\ [][C14_Step]_vars

\* The third form has failed when evaluated; the two defines before it hold.
C14_Witness ==
    /\ prog.name = "file" /\ prog.n = 3
    /\ Finished
    /\ ~evaluate_file(results).ok
    /\ Len(results) = 3
    /\ GlobalX = N(1)

\* ---- C15
PathAt(n) == FailPaths[n]
FailPath ==
    IF prog.n <= Positions THEN PathAt(prog.n)
    ELSE <<"param">> \o PathAt(prog.n - Positions)
Part(m, part) ==
    IF part = "param" THEN m.params[1]
    ELSE IF part = "proc" THEN m.proc
    ELSE IF part = "cond" THEN m.cond
    ELSE IF part = "sub" THEN m.sub
    ELSE IF part = "cons" THEN m.cons
    ELSE IF part = "second" THEN m.second
    ELSE m.proc.body
\* The parts a Meaning hands back to the trampoline as a Thunk.
TailParts == {"cons", "alt", "second", "call"}

\* The locations of the Meanings on the way, outermost first: of all of
\* them, and of those that do not hand the next one back as a Thunk.
RECURSIVE Enclosing(_, _)
Enclosing(m, path) ==
    IF path = <<>> THEN <<m.loc>>
    ELSE <<m.loc>> \o Enclosing(Part(m, Head(path)), Tail(path))
RECURSIVE StillRunning(_, _)
StillRunning(m, path) ==
    IF path = <<>> THEN <<m.loc>>
    ELSE (IF Head(path) \in TailParts THEN <<>> ELSE <<m.loc>>)
             \o StillRunning(Part(m, Head(path)), Tail(path))

\* xs can be had from ys by leaving elements out.
RECURSIVE IsSubSeq(_, _)
IsSubSeq(xs, ys) ==
    IF xs = <<>> THEN TRUE
    ELSE IF ys = <<>> THEN FALSE
    ELSE IF Head(xs) = Head(ys) THEN IsSubSeq(Tail(xs), Tail(ys))
    ELSE IsSubSeq(xs, Tail(ys))

BacktraceDone == Finished /\ prog.name = "backtrace"

\* C15 as claimed: the message of the failed form holds the location of
\* every Meaning that encloses the failing one, in the order of nesting,
\* whatever the position of the failing Meaning.
C15_EveryEnclosingLocation ==
    BacktraceDone
        => /\ Fails(2, UnsetReference, "zz")
           /\ IsSubSeq(Enclosing(analyzed[2].m, FailPath), results[2].err.locs)

\* An evaluator that gets an error from the Meaning it evaluates puts its
\* own location in front; a Thunk is run by the trampoline in the host
\* frame of the Meaning::evaluate that received it.
C15_WrapStep ==
    /\ (/\ \/ Returned("evaluate_definition")
           \/ Returned("evaluate_set_variable")
           \/ Returned("evaluate_conditional")
           \/ Returned("evaluate_sequence")
           \/ Returned("evaluate_invocation")
        /\ Failed)
           => ctl' = Ret([k |-> "Err",
                          e |-> [ctl.r.e EXCEPT
                                     !.locs = <<Top.m.loc>> \o @]])
    /\ (Returned("evaluate") /\ Failed /\ Len(stack) > 1) => ctl' = ctl
    /\ (Returned("evaluate") /\ ctl.r.k = "Thunk")
           => /\ ctl' = Eval(ctl.r.m, ctl.r.a)
              /\ Len(stack') = Len(stack)

\* The message holds, outermost first and once each, the locations of the
\* failing Meaning and of the enclosing Meanings whose evaluator was still
\* running: those that evaluate the next Meaning as operator, operand,
\* condition or value.
C15_BacktraceResults ==
    BacktraceDone
        => /\ Fails(2, UnsetReference, "zz")
           /\ results[2].err.locs = StillRunning(analyzed[2].m, FailPath)

\* C15: a failure inside the operator or an operand of an Invocation, the
\* condition of a Conditional, or the value of a Definition or SetVariable
\* is returned with the enclosing Meaning's location in front, once per
\* enclosing Meaning, outermost first; a failure in the chosen branch of a
\* Conditional, the second part of a Sequence or the body of a called
\* Procedure is returned without the location of that Conditional,
\* Sequence or Invocation, which has handed the part back as a Thunk.
C15_Backtrace == [](C15_BacktraceResults) /\ [][C15_WrapStep]_vars

\* The failing reference is the condition of a Conditional that is an
\* operand: three locations.
C15_Witness ==
    /\ BacktraceDone
    /\ prog.n = Positions + 3
    /\ Len(results[2].err.locs) = 3
    /\ results[2].err.locs = Enclosing(analyzed[2].m, FailPath)

\* ---------------------------------------------------------------------
\* The malformed and the well-formed forms, each in every place.
\* The index of the form in its program: the one before the last.
ShapeForm == Len(Shape(ShapeBad, 1)) - 1
\* The Meaning of the form in its place, given the Meaning of the whole.
MeaningAt(m, place) ==
    IF place = "top" THEN m
    ELSE IF place = "operand" THEN m.params[Len(m.params)]
    ELSE m.body.second

C16_BadResults ==
    (prog.name = "shape_bad" /\ Len(analyzed) >= ShapeForm) =>
        LET r == analyzed[ShapeForm]
        IN  /\ ~r.ok
            /\ r.err.msg = ShapeAt(ShapeBad, prog.n).msg
            /\ Len(results) >= ShapeForm
            /\ results[ShapeForm] = [ok |-> FALSE, err |-> r.err]
            /\ \A k \in 1..Len(trace) : trace[k].loc[1] # ShapeForm
C16_GoodResults ==
    (prog.name = "shape_good" /\ Len(analyzed) >= ShapeForm) =>
        LET r == analyzed[ShapeForm]
        IN  /\ r.ok
            /\ MeaningAt(r.m, PlaceAt(ShapeGood, prog.n)).d
                   = ShapeAt(ShapeGood, prog.n).d
\* C16: analyze returns a static error, and no Meaning, for a quote form
\* whose length is not 2, a define or set! form whose length is not 3 or
\* whose NAME is no symbol, an if form whose length is not 4, a lambda form
\* shorter than 3, a begin form without sub-form, and every special form
\* or invocation written as an improper list, wherever the form stands;
\* nothing of the top-level form is evaluated then.  A form of the right
\* shape whose sub-forms analyze gets a Meaning of its variant.
C16_ShapeChecked == C16_BadResults /\ C16_GoodResults

\* Every malformed form, in every place, has been analyzed and the
\* program has gone on to its last form.
C16_Witness ==
    /\ prog.name = "shape_bad"
    /\ prog.n = Len(ShapeBad) * Len(Places)
    /\ Finished
    /\ ~analyzed[ShapeForm].ok
    /\ Returns(ShapeForm + 1, new_integer(0))

\* ---------------------------------------------------------------------
\* The forms of lambda_fail: the failing lambda, the define after it and
\* the reference to the defined name.
FailingLambda == Len(LambdaFail(1)) - 2
DefineAfter == FailingLambda + 1
ReferenceAfter == DefineAfter + 1

C17_NextFormGlobal ==
    (prog.name = "lambda_fail" /\ Len(analyzed) >= DefineAfter) =>
        LET d == analyzed[DefineAfter]
        IN  /\ ~analyzed[FailingLambda].ok
            /\ d.ok
            /\ d.m.d = "Definition"
            /\ d.m.i = 0
            /\ d.m.j < Len(env[1])
            /\ env[1][d.m.j + 1] = "w"
C17_NextFormResults ==
    (prog.name = "lambda_fail" /\ Finished) =>
        /\ acts[1].by[analyzed[DefineAfter].m.j + 1] = "w"
        /\ Returns(ReferenceAfter, new_integer(5))
\* C17: when analyze returns, with a Meaning or with a static error from a
\* lambda body at any depth of lambdas, the environment has as many frames
\* as before the call, the global one alone; the next top-level form is
\* analyzed with the global frame innermost and its define gets a
\* coordinate in the global frame.
C17_FramesPopped ==
    /\ Len(env) = 1
    /\ C17_NextFormGlobal
    /\ C17_NextFormResults

\* The deepest failing lambda has been analyzed and the define after it
\* evaluated.
C17_Witness ==
    /\ prog.name = "lambda_fail"
    /\ prog.n = MaxN
    /\ Finished
    /\ ~analyzed[FailingLambda].ok
    /\ Returns(ReferenceAfter, new_integer(5))

\* ---------------------------------------------------------------------
\* The Meanings a Meaning holds, all the Meanings within it, and those
\* within it that are not within a Lambda of it.
Parts(m) ==
    IF m.d \in {"Definition", "SetVariable"} THEN {m.sub}
    ELSE IF m.d = "Conditional" THEN {m.cond, m.cons, m.alt}
    ELSE IF m.d = "Sequence" THEN {m.first, m.second}
    ELSE IF m.d = "Lambda" THEN {m.body}
    ELSE IF m.d = "Invocation"
    THEN {m.proc} \cup {m.params[k] : k \in 1..Len(m.params)}
    ELSE {}
RECURSIVE Within(_)
Within(m) == {m} \cup UNION {Within(c) : c \in Parts(m)}
RECURSIVE Own(_)
Own(m) ==
    {m} \cup (IF m.d = "Lambda" THEN {}
              ELSE UNION {Own(c) : c \in Parts(m)})

\* The Lambdas analyzed so far, at every depth.
AnalyzedLambdas ==
    UNION {{l \in Within(analyzed[k].m) : l.d = "Lambda"} :
               k \in {h \in 1..Len(analyzed) : analyzed[h].ok}}
Bound(e, name) == lookup(e, name).found
\* The names the global frame got between before and after.
Appended(ext) ==
    SubSeq(ext.after[1], Len(ext.before[1]) + 1, Len(ext.after[1]))
\* The names the Lambda's own body refers to or sets.
Used(l) ==
    {r.name : r \in {o \in Own(l.body) : o.d \in {"Reference", "SetVariable"}}}

\* The statement that the environment after every successful extension is
\* the one before it.
C18_EnvironmentIdentical ==
    \A l \in AnalyzedLambdas : l.ext.after = l.ext.before

\* C18: after the with_extended_env call of analyze_lambda has returned
\* successfully the environment has the frames it had before, each but
\* the global one with the same names in the same order; the global frame
\* has its names of before, in order, followed by the symbols bound
\* nowhere that the body refers to or sets, each once.  It is identical
\* when the body uses bound names only.
C18_EnvironmentRestored ==
    \A l \in AnalyzedLambdas :
        LET before == l.ext.before
            after == l.ext.after
            new == Appended(l.ext)
        IN  /\ Len(after) = Len(before)
            /\ \A f \in 2..Len(before) : after[f] = before[f]
            /\ SubSeq(after[1], 1, Len(before[1])) = before[1]
            /\ NoRepeat(new)
            /\ \A k \in 1..Len(new) :
                   /\ ~Bound(before, new[k])
                   /\ new[k] \notin {l.names[h] : h \in 1..Len(l.names)}
                   /\ \E u \in Within(l.body) :
                          /\ u.d \in {"Reference", "SetVariable"}
                          /\ u.name = new[k]
            /\ \A name \in Used(l) :
                   \/ Bound(Append(before, l.names), name)
                   \/ \E k \in 1..Len(new) : new[k] = name

\* A lambda nested in another has been analyzed, its body refers to a
\* symbol bound nowhere, and the global frame has got the symbol.
C18_Witness ==
    \E l \in AnalyzedLambdas :
        /\ Len(l.ext.before) > 1
        /\ Len(Appended(l.ext)) > 0
        /\ Len(l.ext.after) = Len(l.ext.before)

\* ---------------------------------------------------------------------
IsPrimitiveName(name) ==
    \E k \in 1..Len(PrimitiveNames) : PrimitiveNames[k] = name
\* The forms of prims: the car, the cdr, the define and the reference.
UserReference == Len(Prims(1))
CdrForm == UserReference - 2
CarForm == CdrForm - 1

C19_Coordinates ==
    \A k \in 1..Len(PrimitiveNames) :
        /\ lookup(env, PrimitiveNames[k])
               = [found |-> TRUE, i |-> 0, j |-> k - 1]
        /\ Activation_fetch(acts, 1, 0, k - 1) = Primitive(PrimitiveNames[k])
C19_UserNamesAfter ==
    \A j \in 1..Len(env[1]) :
        ~IsPrimitiveName(env[1][j]) => j > Len(PrimitiveNames)
C19_PrimsResults ==
    (prog.name = "prims" /\ Finished) =>
        /\ Returns(CarForm, new_integer(prog.n))
        /\ Returns(CdrForm, new_integer(prog.n + 1))
        /\ Returns(UserReference, new_integer(prog.n))
        /\ lookup(env, "u").j >= Len(PrimitiveNames)
\* C19: once define_primitives has run on the fresh environment and global
\* activation, each of the 13 primitive names has the coordinate (0, j)
\* of the slot of the global activation that holds the Primitive value
\* registered under the name, so that a top-level reference to the name
\* fetches its own primitive: (car (cons a b)) is a, (cdr (cons a b)) is
\* b.  The names that user forms define get later slots.
C19_PrimitivesRegistered ==
    /\ Len(PrimitiveNames) = 13
    /\ C19_Coordinates
    /\ C19_UserNamesAfter
    /\ C19_PrimsResults

\* car and cdr of a fresh pair have been taken and a user name defined.
C19_Witness ==
    /\ prog.name = "prims"
    /\ prog.n = MaxN
    /\ Finished
    /\ Returns(CarForm, new_integer(MaxN))
    /\ Returns(CdrForm, new_integer(MaxN + 1))
    /\ lookup(env, "u").found

\* ---------------------------------------------------------------------
\* A step that analyzes a top-level define of a name the global frame does
\* not hold yet; the Definition it yields, and the names the global frame
\* gets by the step.
TheDefinition == analyzed'[Len(analyzed')].m
DefinesNewName ==
    /\ analyzed' # analyzed
    /\ analyzed'[Len(analyzed')].ok
    /\ TheDefinition.d = "Definition"
    /\ ~Bound(env, TheDefinition.name)
Introduced == SubSeq(env'[1], Len(env[1]) + 1, Len(env'[1]))
Mentions(m, name) ==
    \E u \in Within(m) :
        u.d \in {"Reference", "SetVariable"} /\ u.name = name

\* The statement that the name is registered before the value is
\* analyzed: the name gets the first new slot, and a lambda that is the
\* value is analyzed in an environment that holds the name.
C20_DefineStep ==
    DefinesNewName =>
        /\ TheDefinition.j = Len(env[1])
        /\ Introduced[1] = TheDefinition.name
        /\ TheDefinition.sub.d = "Lambda"
               => Bound(TheDefinition.sub.ext.before, TheDefinition.name)
C20_DefineBeforeValue == [][C20_DefineStep]_vars

C20_ValueStep ==
    DefinesNewName =>
        LET d == TheDefinition
            new == Introduced
        IN  /\ d.i = 0
            /\ env'[1][d.j + 1] = d.name
            /\ d.j >= Len(env[1])
            /\ NoRepeat(new)
            /\ d.sub.d = "Lambda" => d.sub.ext.before = env
            /\ \A k \in 1..Len(new) :
                   new[k] # d.name => Mentions(d.sub, new[k])
            /\ ~Mentions(d.sub, d.name) => d.j = Len(env'[1]) - 1
\* C20: analyze_definition analyzes VALUE before it registers NAME with
\* define: VALUE is analyzed in the environment as it was before the
\* form, so a reference to a NAME bound nowhere inside VALUE is registered
\* with define_global, and define then finds that slot; a NAME that VALUE
\* does not mention gets a slot index higher than that of every name
\* first introduced while analyzing VALUE.
C20_ValueBeforeDefine == [][C20_ValueStep]_vars

\* (define f (lambda () g)) has been analyzed with g bound nowhere: g has
\* the slot before f's.
C20_Witness ==
    /\ prog.name = "forward_ref"
    /\ Len(analyzed) >= 1
    /\ analyzed[1].ok
    /\ analyzed[1].m.d = "Definition"
    /\ analyzed[1].m.name = "f"
    /\ lookup(env, "g").found
    /\ lookup(env, "g").j < analyzed[1].m.j

\* ---------------------------------------------------------------------
\* The form of params that holds the lambda; all parameter lists of
\* params but the last are no proper list of distinct symbols.
LambdaForm == Len(Params(1))

\* C21: analyze rejects with a static error every lambda whose parameter
\* list is an improper list, holds a non-symbol or holds the same symbol
\* twice; the arity of every Lambda it accepts is the number of its
\* parameters.
C21_ParametersChecked ==
    /\ (prog.name = "params" /\ Len(analyzed) >= LambdaForm
            /\ prog.n < Len(ParamLists))
           => ~analyzed[LambdaForm].ok
    /\ \A l \in AnalyzedLambdas :
           l.arity = Len(l.params) /\ NoRepeat(l.params)

\* ---------------------------------------------------------------------
\* The host frames whose Trampoline::run is in its loop, and the evaluator
\* functions.
ActiveLoops == {f \in 1..Len(stack) : stack[f].run}
Evaluators ==
    {"evaluate_definition", "evaluate_set_variable", "evaluate_conditional",
     "evaluate_sequence", "evaluate_invocation"}

\* The statement that at most one loop of Trampoline::run is active on the
\* host stack at a time.
C22_OneDriver == Cardinality(ActiveLoops) <= 1

C22_LoopsNest ==
    /\ \A f \in ActiveLoops : stack[f].k = "evaluate"
    /\ \A f \in 2..Len(stack) :
           stack[f].k = "evaluate" <=> stack[f - 1].k \in Evaluators
C22_LoopStep ==
    /\ C22_LoopsNest
    /\ (Returned("evaluate") /\ ctl.r.k = "Thunk")
           => /\ Len(stack') = Len(stack)
              /\ stack'[Len(stack)].run
              /\ \A f \in 1..(Len(stack) - 1) : stack'[f] = stack[f]
              /\ ctl' = Eval(ctl.r.m, ctl.r.a)
    /\ (\E f \in 1..Len(stack') : stack'[f].run /\ f \notin ActiveLoops)
           => Returned("evaluate") /\ ctl.r.k = "Thunk" /\ ~Top.run
    /\ (ctl.mode = "eval" /\ ctl.m.d \in {"Definition", "SetVariable",
                                           "Conditional", "Sequence",
                                           "Invocation"})
           => /\ Len(stack') = Len(stack) + 2
              /\ stack'[Len(stack')].k = "evaluate"
              /\ ~stack'[Len(stack')].run
\* C22: every evaluator function evaluates its sub-Meaning that is not in
\* tail position with Meaning::evaluate, in a host frame above the waiting
\* driver; that frame enters a loop of Trampoline::run of its own when the
\* sub-Meaning yields a Thunk, so the loops active at a time are as many
\* as the nested evaluations that have yielded a Thunk.  A Thunk returned
\* to a loop that is running is taken by that loop: it starts no other.
C22_NestedDrivers == [][C22_LoopStep]_vars

\* Two loops are active: an operand's call runs in its own loop above the
\* loop that runs the caller's body.
C22_Witness ==
    /\ Cardinality(ActiveLoops) >= 2
    /\ ctl.mode = "eval"

\* ---------------------------------------------------------------------
\* A step changes a slot of the existing activation a; the step writes
\* the returned value to slot j of a and leaves its other slots alone.
SlotsChange(a) == acts'[a].slots # acts[a].slots
WritesSlot(a, j) ==
    /\ Len(acts'[a].slots) >= Len(acts[a].slots)
    /\ j < Len(acts'[a].slots)
    /\ acts'[a].slots[j + 1] = ctl.r.v
    /\ \A k \in 1..Len(acts[a].slots) :
           k # j + 1 => acts'[a].slots[k] = acts[a].slots[k]
ByDefinition(a) ==
    /\ Returned("evaluate_definition")
    /\ ~Failed
    /\ a = Top.a
    /\ WritesSlot(a, Top.m.j)
BySetVariable(a, target) ==
    /\ Returned("evaluate_set_variable")
    /\ ~Failed
    /\ a = target
    /\ Len(acts'[a].slots) = Len(acts[a].slots)
    /\ WritesSlot(a, Top.m.j)
ChainKept ==
    /\ Len(acts') >= Len(acts)
    /\ \A a \in 1..Len(acts) : acts'[a].parent = acts[a].parent
    /\ Len(acts') > Len(acts) => Returned("evaluate_invocation")

\* The statement that every write to a slot of an existing activation
\* targets the current activation.
C23_InnermostStep ==
    /\ ChainKept
    /\ \A a \in 1..Len(acts) :
           SlotsChange(a) => ByDefinition(a) \/ BySetVariable(a, Top.a)
C23_WritesInnermost == [][C23_InnermostStep]_vars

C23_WriteStep ==
    /\ ChainKept
    /\ \A a \in 1..Len(acts) :
           SlotsChange(a) =>
               \/ ByDefinition(a)
               \/ BySetVariable(a, Walk(acts, Top.a, Top.m.i))
\* C23: every write to a slot of an existing activation is made by a
\* Definition, into slot j of the current activation, or by a SetVariable,
\* into slot j of the activation i links up the chain from the current
\* one; the evaluation of a Quotation, Reference, Conditional, Sequence
\* or Lambda, and the application of a procedure or primitive, change no
\* slot of an existing activation, and no step changes the parent link of
\* an activation.
C23_WritesByCoordinate == [][C23_WriteStep]_vars

\* The set! in the body of mark has written the global t from the
\* activation of the call.
C23_Witness ==
    /\ prog.name = "order"
    /\ ctl.mode = "ret"
    /\ ctl.r = Value(Unspecified)
    /\ stack # <<>>
    /\ Top.k = "evaluate_sequence"
    /\ Top.a # 1
    /\ Activation_fetch(acts, 1, 0, Globals) = new_integer(1)

\* ---------------------------------------------------------------------
\* The forms that did not analyze, by the number of their program's form.
FailedAnalyses == {k \in 1..Len(analyzed) : ~analyzed[k].ok}

\* C24: every error that analyze returns carries the location of the
\* offending form, which lies in the top-level form that was analyzed:
\* for a special form of the wrong length, a non-symbol where a name is
\* required, an improper list (an improperly formed sequence or invocation
\* too) and an atom that cannot be evaluated, such as the unquoted empty
\* list.
C24_ErrorsLocated ==
    \A k \in FailedAnalyses :
        LET locs == analyzed[k].err.locs
        IN  /\ Len(locs) = 1
            /\ locs[1][1] = k

\* ---------------------------------------------------------------------
\* evaluate_invocation has the value of its operator, which is neither a
\* Primitive nor a Procedure, and of every operand.
NoProcedure == "Error: expected a procedure to call"
OperatorValue == IF Top.vals = <<>> THEN ctl.r.v ELSE Top.vals[1]
AppliesNoProcedure ==
    /\ Returned("evaluate_invocation")
    /\ ~Failed
    /\ OperatorValue.t \notin {"prim", "proc"}
    /\ Len(Top.vals) = Len(Top.m.params)
\* A step after which the error is being returned that was not before.
RaisesNoProcedure ==
    /\ ctl'.mode = "ret"
    /\ ctl'.r.k = "Err"
    /\ ctl'.r.e.msg = NoProcedure
    /\ ~(ctl.mode = "ret" /\ ctl.r.k = "Err")

C25_ApplyStep ==
    /\ AppliesNoProcedure
           => /\ ctl' = Ret([k |-> "Err",
                             e |-> [msg |-> NoProcedure, name |-> "",
                                    locs |-> <<Top.m.loc>>]])
              /\ acts' = acts
              /\ stack' = Pop(stack)
    /\ RaisesNoProcedure => AppliesNoProcedure
\* The forms of not_proc: the call, and the list of t and w after it.
CallForm == Len(NotProc(1)) - 1
C25_NotProcResults ==
    prog.name = "not_proc" =>
        /\ Len(acts) = 1
        /\ Len(results) >= CallForm
               => /\ ~results[CallForm].ok
                  /\ results[CallForm].err.msg = NoProcedure
                  /\ Activation_fetch(acts, 1, 0, Globals) = new_integer(1)
                  /\ Activation_fetch(acts, 1, 0, Globals + 1) = new_integer(2)
        /\ Finished
               => ReturnsList(CallForm + 1, <<new_integer(1), new_integer(2)>>)
\* C25: when the operator of an invocation has a value that is neither a
\* Primitive nor a Procedure the evaluation fails with "expected a
\* procedure to call" and creates no activation; the error is raised only
\* when every operand has been evaluated, and what define and set! in the
\* operands have written stays as written.
C25_NoProcedureToCall ==
    /\ [][C25_ApplyStep]_vars
    /\ [](C25_NotProcResults)

\* The call of a pair has failed after its operands have set t and
\* defined w, and the next form has listed them.
C25_Witness ==
    /\ prog.name = "not_proc"
    /\ prog.n = Len(NonProcedures)
    /\ Finished
    /\ ~results[CallForm].ok
    /\ results[CallForm].err.msg = NoProcedure
    /\ ReturnsList(CallForm + 1, <<new_integer(1), new_integer(2)>>)
====
